---- MODULE Spec2Model ----
(***************************************************************************)
(* Dog body-language interpreter backend: the response normalizer          *)
(* (_parse_json_fallback), the Bedrock call (analyze_image), the           *)
(* orchestrator (InterpretationService.interpret), the HTTP handler        *)
(* (_handle_interpret) and the interpretation store.                       *)
(*                                                                         *)
(* Text is a sequence of one-character strings.  The backtick, which the   *)
(* TLA+ string syntax does not admit, is written as the symbol BACKTICK.   *)
(* A Python float is an exact decimal [m |-> mantissa, e |-> scale], the   *)
(* number m * 10^(-e), kept normalised (m not divisible by 10, or 0/0).    *)
(***************************************************************************)
EXTENDS Integers, Sequences, FiniteSets, TLC

BACKTICK == "BACKTICK"
QUOTE == "\""
APOS == "'"
NL == "\n"

Min(S) == CHOOSE x \in S : \A y \in S : x <= y
Max(S) == CHOOSE x \in S : \A y \in S : x >= y

(***************************************************************************)
(* Python str operations used by the source.  Indices are Python's         *)
(* (0-based); Slice(s, a, b) is s[a:b].                                    *)
(***************************************************************************)
Whitespace == {" ", "\n", "\t", "\r"}

Slice(s, a, b) == SubSeq(s, a + 1, b)

At(s, p) == IF p >= 1 /\ p <= Len(s) THEN s[p] ELSE ""

strip_chars(s, chars) ==
    LET Trim(keep) == IF keep = {} THEN <<>> ELSE SubSeq(s, Min(keep), Max(keep))
    IN  Trim({i \in 1..Len(s) : s[i] \notin chars})

strip(s) == strip_chars(s, Whitespace)

startswith(s, prefix) ==
    Len(s) >= Len(prefix) /\ SubSeq(s, 1, Len(prefix)) = prefix

endswith(s, suffix) ==
    Len(s) >= Len(suffix) /\ SubSeq(s, Len(s) - Len(suffix) + 1, Len(s)) = suffix

Occurrences(s, sub, start) ==
    {i \in start..(Len(s) - Len(sub)) : SubSeq(s, i + 1, i + Len(sub)) = sub}

find(s, sub, start) ==
    LET First(hits) == IF hits = {} THEN -1 ELSE Min(hits)
    IN  First(Occurrences(s, sub, start))

rfind(s, sub) ==
    LET Last(hits) == IF hits = {} THEN -1 ELSE Max(hits)
    IN  Last(Occurrences(s, sub, 0))

contains(s, sub) == Occurrences(s, sub, 0) # {}

UpperCase == <<"A", "B", "C", "D", "E", "F", "G", "H", "I", "J", "K", "L", "M",
               "N", "O", "P", "Q", "R", "S", "T", "U", "V", "W", "X", "Y", "Z">>
LowerCase == <<"a", "b", "c", "d", "e", "f", "g", "h", "i", "j", "k", "l", "m",
               "n", "o", "p", "q", "r", "s", "t", "u", "v", "w", "x", "y", "z">>

lower_char(c) ==
    LET Map(hits) == IF hits = {} THEN c ELSE LowerCase[Min(hits)]
    IN  Map({i \in 1..26 : UpperCase[i] = c})

lower(s) == [i \in 1..Len(s) |-> lower_char(s[i])]

RECURSIVE split(_, _)
split(s, sep) ==
    LET Cut(i) == IF i = -1 THEN <<s>>
                  ELSE <<Slice(s, 0, i)>> \o split(Slice(s, i + Len(sep), Len(s)), sep)
    IN  Cut(find(s, sep, 0))

RECURSIVE join(_, _)
join(sep, parts) ==
    IF parts = <<>> THEN <<>>
    ELSE IF Len(parts) = 1 THEN parts[1]
    ELSE parts[1] \o sep \o join(sep, Tail(parts))

(***************************************************************************)
(* Decimal numbers.                                                        *)
(***************************************************************************)
Digits == {"0", "1", "2", "3", "4", "5", "6", "7", "8", "9"}
DigitSeq == <<"0", "1", "2", "3", "4", "5", "6", "7", "8", "9">>

DigitVal(c) == (CHOOSE i \in 1..10 : DigitSeq[i] = c) - 1

AllDigits(s) == \A i \in 1..Len(s) : s[i] \in Digits

RECURSIVE NatVal(_)
NatVal(s) ==
    IF s = <<>> THEN 0
    ELSE 10 * NatVal(SubSeq(s, 1, Len(s) - 1)) + DigitVal(s[Len(s)])

\* An optionally signed run of digits (empty: 0).
SignedVal(s) ==
    IF At(s, 1) = "-" THEN 0 - NatVal(Tail(s))
    ELSE IF At(s, 1) = "+" THEN NatVal(Tail(s))
    ELSE NatVal(s)

RECURSIVE NatStr(_)
NatStr(n) ==
    IF n < 10 THEN <<DigitSeq[n + 1]>>
    ELSE NatStr(n \div 10) \o <<DigitSeq[(n % 10) + 1]>>

RECURSIVE Dec(_, _)
Dec(m, e) ==
    IF m = 0 THEN [m |-> 0, e |-> 0]
    ELSE IF m % 10 = 0 THEN Dec(m \div 10, e - 1)
    ELSE [m |-> m, e |-> e]

\* 0 <= val <= 1: a normalised m > 0 is at most 10^e iff it has at most e digits
\* (or is 1 itself).
InUnitInterval(val) ==
    /\ val.m >= 0
    /\ \/ val.m = 0
       \/ val.e >= 0 /\ (Len(NatStr(val.m)) <= val.e \/ (val.m = 1 /\ val.e = 0))

Zeros(k) == [i \in 1..k |-> "0"]

\* The first position >= p of s that holds no digit (Len(s) + 1 at the end).
FirstNonDigit(s, p) ==
    Min({i \in p..(Len(s) + 1) : i = Len(s) + 1 \/ s[i] \notin Digits})

(***************************************************************************)
(* json.loads and the Python conversions str() and float(), on the         *)
(* characters the model's texts are made of: of the backslash escapes     *)
(* only \" \\ \/ \n \t \r occur, and no NaN or Infinity spelling, so every  *)
(* float is finite.  A decoded value is a record tagged by t.              *)
(***************************************************************************)
JNull == [t |-> "null"]
JBool(b) == [t |-> "bool", b |-> b]
JStr(s) == [t |-> "str", s |-> s]
JNum(isInt, neg, m, e) == [t |-> "num", isInt |-> isInt, neg |-> neg, m |-> m, e |-> e]
JList(items) == [t |-> "list", items |-> items]
JDict(keys, vals) == [t |-> "dict", keys |-> keys, vals |-> vals]

JFail == [ok |-> FALSE, v |-> JNull, p |-> 0]
JOk(v, p) == [ok |-> TRUE, v |-> v, p |-> p]

ControlChars == {"\n", "\t", "\r"}

skip_ws(s, p) ==
    Min({i \in p..(Len(s) + 1) : i = Len(s) + 1 \/ s[i] \notin Whitespace})

\* The character an escape \c stands for (\" \\ \/ \n \t \r; texts hold no other).
Escapes == {QUOTE, "\\", "/", "n", "t", "r"}
unescape(c) == IF c = "n" THEN "\n" ELSE IF c = "t" THEN "\t" ELSE IF c = "r" THEN "\r" ELSE c

\* A string literal whose opening quote is at p (strict: no control characters).
\* A character of the literal is escaped when an odd run of backslashes precedes
\* it; the literal ends at its first quote that is not escaped.
scanstring(s, p) ==
    LET Escaped(i) ==
            Max({k \in 0..(i - p - 1) : \A j \in (i - k)..(i - 1) : s[j] = "\\"}) % 2 = 1
        Decode(end) ==
            IF \E i \in (p + 1)..(end - 1) :
                  IF Escaped(i) THEN s[i] \notin Escapes ELSE s[i] \in ControlChars
            THEN JFail
            ELSE JOk(JStr(SelectSeq([k \in 1..(end - p - 1) |->
                                        IF Escaped(p + k) THEN unescape(s[p + k])
                                        ELSE IF s[p + k] = "\\" THEN ""
                                        ELSE s[p + k]],
                                    LAMBDA c : c # "")),
                     end + 1)
        Close(quotes) == IF quotes = {} THEN JFail ELSE Decode(Min(quotes))
    IN  Close({i \in (p + 1)..Len(s) : s[i] = QUOTE /\ ~Escaped(i)})

\* NUMBER_RE: (-?(?:0|[1-9]\d*))(\.\d+)?([eE][-+]?\d+)?
\* The end of the integer part that starts at i0, of the fraction that may follow
\* at iEnd, and of the exponent that may follow at fEnd.
number_int_end(s, i0) == IF s[i0] = "0" THEN i0 + 1 ELSE FirstNonDigit(s, i0)

number_frac_end(s, iEnd) ==
    IF At(s, iEnd) = "." /\ At(s, iEnd + 1) \in Digits
    THEN FirstNonDigit(s, iEnd + 1)
    ELSE iEnd

number_exp_end(s, fEnd) ==
    IF At(s, fEnd) \notin {"e", "E"} THEN fEnd
    ELSE IF At(s, fEnd + 1) \in Digits THEN FirstNonDigit(s, fEnd + 1)
    ELSE IF At(s, fEnd + 1) \in {"+", "-"} /\ At(s, fEnd + 2) \in Digits
         THEN FirstNonDigit(s, fEnd + 2)
    ELSE fEnd

\* The number whose integer part is s[i0..iEnd-1], fraction s[iEnd+1..fEnd-1] and
\* exponent s[fEnd+1..eEnd-1] (a part that is absent is an empty subsequence).
number_value(s, neg, i0, iEnd, fEnd, eEnd) ==
    JOk(JNum(fEnd = iEnd /\ eEnd = fEnd, neg,
             NatVal(SubSeq(s, i0, iEnd - 1) \o SubSeq(s, iEnd + 1, fEnd - 1)),
             Len(SubSeq(s, iEnd + 1, fEnd - 1)) - SignedVal(SubSeq(s, fEnd + 1, eEnd - 1))),
        eEnd)

scan_number(s, p) ==
    LET Exp(neg, i0, iEnd, fEnd) ==
            number_value(s, neg, i0, iEnd, fEnd, number_exp_end(s, fEnd))
        Frac(neg, i0, iEnd) == Exp(neg, i0, iEnd, number_frac_end(s, iEnd))
        Whole(neg, i0) ==
            IF At(s, i0) \notin Digits THEN JFail
            ELSE Frac(neg, i0, number_int_end(s, i0))
    IN  IF At(s, p) = "-" THEN Whole(TRUE, p + 1) ELSE Whole(FALSE, p)

dict_put(d, k, v) ==
    IF \E i \in 1..Len(d.keys) : d.keys[i] = k
    THEN JDict(d.keys, [i \in 1..Len(d.keys) |-> IF d.keys[i] = k THEN v ELSE d.vals[i]])
    ELSE JDict(Append(d.keys, k), Append(d.vals, v))

RECURSIVE decode_value(_, _)
RECURSIVE decode_members(_, _, _)
RECURSIVE decode_items(_, _, _)

\* JSONObject, at the position of a member's key.
decode_members(s, p, d) ==
    LET Rest(r, d2) ==
            IF At(s, r) = "}" THEN JOk(d2, r + 1)
            ELSE IF At(s, r) = "," THEN decode_members(s, skip_ws(s, r + 1), d2)
            ELSE JFail
        Value(k, v) ==
            IF ~v.ok THEN JFail ELSE Rest(skip_ws(s, v.p), dict_put(d, k.v.s, v.v))
        Colon(k, c) ==
            IF At(s, c) # ":" THEN JFail ELSE Value(k, decode_value(s, skip_ws(s, c + 1)))
        Key(k) == IF ~k.ok THEN JFail ELSE Colon(k, skip_ws(s, k.p))
    IN  IF At(s, p) # QUOTE THEN JFail ELSE Key(scanstring(s, p))

\* JSONArray, at the position of an item.
decode_items(s, p, items) ==
    LET Rest(v, r) ==
            IF At(s, r) = "]" THEN JOk(JList(Append(items, v.v)), r + 1)
            ELSE IF At(s, r) = ","
                 THEN decode_items(s, skip_ws(s, r + 1), Append(items, v.v))
            ELSE JFail
        Item(v) == IF ~v.ok THEN JFail ELSE Rest(v, skip_ws(s, v.p))
    IN  Item(decode_value(s, p))

decode_value(s, p) ==
    LET Value(c, q) ==
            IF c = QUOTE THEN scanstring(s, p)
            ELSE IF c = "{"
                 THEN IF At(s, q) = "}" THEN JOk(JDict(<<>>, <<>>), q + 1)
                      ELSE decode_members(s, q, JDict(<<>>, <<>>))
            ELSE IF c = "["
                 THEN IF At(s, q) = "]" THEN JOk(JList(<<>>), q + 1)
                      ELSE decode_items(s, q, <<>>)
            ELSE IF SubSeq(s, p, Min({Len(s), p + 3})) = <<"n", "u", "l", "l">>
                 THEN JOk(JNull, p + 4)
            ELSE IF SubSeq(s, p, Min({Len(s), p + 3})) = <<"t", "r", "u", "e">>
                 THEN JOk(JBool(TRUE), p + 4)
            ELSE IF SubSeq(s, p, Min({Len(s), p + 4})) = <<"f", "a", "l", "s", "e">>
                 THEN JOk(JBool(FALSE), p + 5)
            ELSE scan_number(s, p)
    IN  Value(At(s, p), skip_ws(s, p + 1))

\* json.loads(s): [ok, v]; not ok is a JSONDecodeError.
json_loads(s) ==
    LET Whole(r) ==
            IF r.ok /\ skip_ws(s, r.p) = Len(s) + 1
            THEN [ok |-> TRUE, v |-> r.v]
            ELSE [ok |-> FALSE, v |-> JNull]
    IN  Whole(decode_value(s, skip_ws(s, 1)))

\* repr() of a float with the digits ds and the scale e: its shortest decimal.
FormatDecimal(ds, e) ==
    IF e <= 0 THEN ds \o Zeros(0 - e) \o <<".", "0">>
    ELSE IF Len(ds) > e
         THEN SubSeq(ds, 1, Len(ds) - e) \o <<".">> \o SubSeq(ds, Len(ds) - e + 1, Len(ds))
    ELSE <<"0", ".">> \o Zeros(e - Len(ds)) \o ds

\* repr() of a number: an int prints its digits, a float its shortest decimal.
FormatNum(v) ==
    IF v.isInt
    THEN (IF v.neg /\ v.m # 0 THEN <<"-">> ELSE <<>>) \o NatStr(v.m)
    ELSE (IF v.neg THEN <<"-">> ELSE <<>>)
         \o FormatDecimal(NatStr(Dec(v.m, v.e).m), Dec(v.m, v.e).e)

RECURSIVE ReprEscape(_, _)
ReprEscape(s, q) ==
    IF s = <<>> THEN <<>>
    ELSE (IF s[1] = "\\" THEN <<"\\", "\\">>
          ELSE IF s[1] = "\n" THEN <<"\\", "n">>
          ELSE IF s[1] = "\t" THEN <<"\\", "t">>
          ELSE IF s[1] = "\r" THEN <<"\\", "r">>
          ELSE IF s[1] = q THEN <<"\\", q>>
          ELSE <<s[1]>>) \o ReprEscape(Tail(s), q)

\* repr() of a str: single quotes, unless it holds a single and no double quote.
ReprStr(s) ==
    IF (\E i \in 1..Len(s) : s[i] = APOS) /\ ~(\E i \in 1..Len(s) : s[i] = QUOTE)
    THEN <<QUOTE>> \o ReprEscape(s, QUOTE) \o <<QUOTE>>
    ELSE <<APOS>> \o ReprEscape(s, APOS) \o <<APOS>>

RECURSIVE PyRepr(_)
RECURSIVE ReprItems(_)
RECURSIVE ReprPairs(_, _)

ReprItems(items) ==
    IF items = <<>> THEN <<>>
    ELSE IF Len(items) = 1 THEN PyRepr(items[1])
    ELSE PyRepr(items[1]) \o <<",", " ">> \o ReprItems(Tail(items))

ReprPairs(keys, vals) ==
    IF keys = <<>> THEN <<>>
    ELSE ReprStr(keys[1]) \o <<":", " ">> \o PyRepr(vals[1])
         \o (IF Len(keys) = 1 THEN <<>> ELSE <<",", " ">> \o ReprPairs(Tail(keys), Tail(vals)))

PyRepr(v) ==
    IF v.t = "str" THEN ReprStr(v.s)
    ELSE IF v.t = "num" THEN FormatNum(v)
    ELSE IF v.t = "null" THEN <<"N", "o", "n", "e">>
    ELSE IF v.t = "bool"
         THEN (IF v.b THEN <<"T", "r", "u", "e">> ELSE <<"F", "a", "l", "s", "e">>)
    ELSE IF v.t = "list" THEN <<"[">> \o ReprItems(v.items) \o <<"]">>
    ELSE <<"{">> \o ReprPairs(v.keys, v.vals) \o <<"}">>

\* str(v)
PyStr(v) == IF v.t = "str" THEN v.s ELSE PyRepr(v)

NoFloat == [m |-> 0, e |-> 0]
Raise(exc) == [exc |-> exc, val |-> NoFloat]
Float(val) == [exc |-> "", val |-> val]

\* s cut at its first character that is in chars.
SplitAt(s, chars) ==
    LET Cut(hits) ==
            IF hits = {}
            THEN [head |-> s, tail |-> <<>>, found |-> FALSE]
            ELSE [head |-> SubSeq(s, 1, Min(hits) - 1),
                  tail |-> SubSeq(s, Min(hits) + 1, Len(s)), found |-> TRUE]
    IN  Cut({i \in 1..Len(s) : s[i] \in chars})

Unsigned(s) == IF At(s, 1) \in {"+", "-"} THEN Tail(s) ELSE s

\* float(text) for a str: optional sign, digits with an optional point, optional
\* exponent; anything else is a ValueError.
float_of_str(text) ==
    LET Build(neg, mant, hasExp, expo) ==
            IF /\ AllDigits(mant.head) /\ AllDigits(mant.tail)
               /\ Len(mant.head) + Len(mant.tail) > 0
               /\ (hasExp => (AllDigits(Unsigned(expo)) /\ Unsigned(expo) # <<>>))
            THEN Float(Dec(IF neg THEN 0 - NatVal(mant.head \o mant.tail)
                                  ELSE NatVal(mant.head \o mant.tail),
                           Len(mant.tail) - SignedVal(expo)))
            ELSE Raise("ValueError")
        Parts(neg, me) == Build(neg, SplitAt(me.head, {"."}), me.found, me.tail)
        Signed(s) == Parts(At(s, 1) = "-", SplitAt(Unsigned(s), {"e", "E"}))
    IN  Signed(strip(text))

\* float(v) for a decoded JSON value.
to_float(v) ==
    IF v.t = "num" THEN Float(Dec(IF v.neg THEN 0 - v.m ELSE v.m, v.e))
    ELSE IF v.t = "bool" THEN Float(Dec(IF v.b THEN 1 ELSE 0, 0))
    ELSE IF v.t = "str" THEN float_of_str(v.s)
    ELSE Raise("TypeError")

\* obj.get(key, default) on a dict.
dict_get(obj, key, default) ==
    IF \E i \in 1..Len(obj.keys) : obj.keys[i] = key
    THEN obj.vals[CHOOSE i \in 1..Len(obj.keys) : obj.keys[i] = key]
    ELSE default

(***************************************************************************)
(* The response normalizer, bedrock_client._parse_json_fallback.  A        *)
(* strategy ends in "return" (with a result), "pass" (go on to the next    *)
(* strategy) or "raise" (an exception no handler caught).                  *)
(***************************************************************************)
KeyExplanation == <<"e", "x", "p", "l", "a", "n", "a", "t", "i", "o", "n">>
KeyConfidence == <<"c", "o", "n", "f", "i", "d", "e", "n", "c", "e">>
Fence == <<BACKTICK, BACKTICK, BACKTICK>>

\* The default confidence 0.5, as a literal and as a float.
DefaultConfidenceLiteral == JNum(FALSE, FALSE, 5, 1)
DefaultConfidence == Dec(5, 1)

\* except <handler>: does it catch an exception of class exc?
Catches(handler, exc) ==
    \/ handler = "Exception"
    \/ handler = exc
    \/ handler = "ValueError" /\ exc = "JSONDecodeError"

Return(explanation, confidence) ==
    [kind |-> "return", exc |-> "", explanation |-> explanation, confidence |-> confidence]
Pass == [kind |-> "pass", exc |-> "", explanation |-> <<>>, confidence |-> NoFloat]
Uncaught(exc) ==
    [kind |-> "raise", exc |-> exc, explanation |-> <<>>, confidence |-> NoFloat]

Fields(exc, explanation, confidence) ==
    [exc |-> exc, explanation |-> explanation, confidence |-> confidence]

\* obj = json.loads(text); explanation = str(obj.get("explanation", "")).strip();
\* confidence = float(obj.get("confidence", 0.5))
read_fields(text) ==
    LET Read(obj, conf) ==
            IF conf.exc # "" THEN Fields(conf.exc, <<>>, NoFloat)
            ELSE Fields("", strip(PyStr(dict_get(obj, KeyExplanation, JStr(<<>>)))), conf.val)
        Loaded(parsed) ==
            IF ~parsed.ok THEN Fields("JSONDecodeError", <<>>, NoFloat)
            ELSE IF parsed.v.t # "dict" THEN Fields("AttributeError", <<>>, NoFloat)
            ELSE Read(parsed.v,
                      to_float(dict_get(parsed.v, KeyConfidence, DefaultConfidenceLiteral)))
    IN  Loaded(json_loads(text))

\* unwrap_quotes with "or" for "and": a quote at either end is taken for a pair.
unwrap_quotes_either(explanation) ==
    IF startswith(explanation, <<QUOTE>>) \/ endswith(explanation, <<QUOTE>>)
    THEN strip(Slice(explanation, 1, Len(explanation) - 1))
    ELSE explanation

unwrap_quotes(explanation) ==
    IF startswith(explanation, <<QUOTE>>) /\ endswith(explanation, <<QUOTE>>)
    THEN strip(Slice(explanation, 1, Len(explanation) - 1))
    ELSE explanation

\* strip_fence cutting at the last newline, not the first.
strip_fence_last_newline(s) ==
    LET Closing(s1) == IF endswith(s1, Fence) THEN Slice(s1, 0, Len(s1) - 3) ELSE s1
        Opening(last_newline) ==
            IF last_newline # -1 THEN Slice(s, last_newline + 1, Len(s)) ELSE s
    IN  IF startswith(s, Fence) THEN strip(Closing(Opening(rfind(s, <<NL>>)))) ELSE s

\* Strip fenced code blocks if present (s is the stripped text).
strip_fence(s) ==
    LET Closing(s1) == IF endswith(s1, Fence) THEN Slice(s1, 0, Len(s1) - 3) ELSE s1
        Opening(first_newline) ==
            IF first_newline # -1 THEN Slice(s, first_newline + 1, Len(s)) ELSE s
    IN  IF startswith(s, Fence) THEN strip(Closing(Opening(find(s, <<NL>>, 0)))) ELSE s

\* Try to isolate the JSON substring if mixed with prose; handler is the class
\* named by the except clause.
embedded_json_except(s, handler) ==
    LET Outcome(f) ==
            IF f.exc # ""
            THEN (IF Catches(handler, f.exc) THEN Pass ELSE Uncaught(f.exc))
            ELSE IF f.explanation # <<>>
                 THEN Return(unwrap_quotes(f.explanation), f.confidence)
            ELSE Pass
        Span(start, end) ==
            IF start # -1 /\ end # -1 /\ end > start
            THEN Outcome(read_fields(Slice(s, start, end + 1)))
            ELSE Pass
    IN  IF contains(s, <<"{">>) /\ contains(s, <<"}">>)
        THEN Span(find(s, <<"{">>, 0), rfind(s, <<"}">>))
        ELSE Pass

\* embedded_json with "except ValueError" for "except Exception".
embedded_json_value_error(s) == embedded_json_except(s, "ValueError")

embedded_json(s) == embedded_json_except(s, "Exception")

\* lines = [line.strip() for line in cleaned.split("\n") if line.strip()]
non_empty_lines(cleaned) ==
    LET Strip(parts) ==
            SelectSeq([i \in 1..Len(parts) |-> strip(parts[i])], LAMBDA line : line # <<>>)
    IN  Strip(split(cleaned, <<NL>>))

\* The last line, or what follows the colon of a last line that says "confidence".
text_to_parse(last_line) ==
    LET After(colon) ==
            IF contains(lower(last_line), KeyConfidence) /\ colon # -1
            THEN strip(Slice(last_line, colon + 1, Len(last_line)))
            ELSE last_line
    IN  After(find(last_line, <<":">>, 0))

\* numeric_last_line without the test 0 <= val <= 1.
numeric_last_line_any(cleaned) ==
    LET Check(lines, val) ==
            IF val.exc # ""
            THEN (IF Catches("ValueError", val.exc) THEN Pass ELSE Uncaught(val.exc))
            ELSE Return(strip(join(<<NL>>, SubSeq(lines, 1, Len(lines) - 1))), val.val)
        Try(lines) ==
            IF lines = <<>> THEN Pass
            ELSE Check(lines, float_of_str(text_to_parse(lines[Len(lines)])))
    IN  Try(non_empty_lines(cleaned))

\* The numeric-last-line heuristic.
numeric_last_line(cleaned) ==
    LET Check(lines, val) ==
            IF val.exc # ""
            THEN (IF Catches("ValueError", val.exc) THEN Pass ELSE Uncaught(val.exc))
            ELSE IF InUnitInterval(val.val)
                 THEN Return(strip(join(<<NL>>, SubSeq(lines, 1, Len(lines) - 1))), val.val)
            ELSE Pass
        Try(lines) ==
            IF lines = <<>> THEN Pass
            ELSE Check(lines, float_of_str(text_to_parse(lines[Len(lines)])))
    IN  Try(non_empty_lines(cleaned))

\* The "explanation" marker heuristic, and the final plain-text result.
explanation_marker(cleaned) ==
    LET Use(colon, maybe) ==
            IF colon # -1 /\ maybe # <<>>
            THEN Return(maybe, DefaultConfidence)
            ELSE Return(cleaned, DefaultConfidence)
        Marker(colon) ==
            Use(colon,
                strip_chars(strip_chars(strip(strip(Slice(cleaned, colon + 1, Len(cleaned)))),
                                        {QUOTE}),
                            {APOS, "}", "]"}))
    IN  IF contains(lower(cleaned), KeyExplanation)
        THEN Marker(find(cleaned, <<":">>, find(lower(cleaned), KeyExplanation, 0)))
        ELSE Return(cleaned, DefaultConfidence)

\* plain_text giving an empty text the confidence 0.
plain_text_empty_zero(s) ==
    LET Or(numeric) == IF numeric.kind # "pass" THEN numeric ELSE explanation_marker(s)
    IN  IF s = <<>> THEN Return(<<>>, Dec(0, 0)) ELSE Or(numeric_last_line(s))

\* except Exception: the plain-text heuristics.
plain_text(s) ==
    LET Or(numeric) == IF numeric.kind # "pass" THEN numeric ELSE explanation_marker(s)
    IN  Or(numeric_last_line(s))

\* try: json.loads(s) ... except Exception: ...
whole_json(s) ==
    LET Outcome(f) ==
            IF f.exc = "" THEN Return(unwrap_quotes(f.explanation), f.confidence)
            ELSE IF ~Catches("Exception", f.exc) THEN Uncaught(f.exc)
            ELSE plain_text(s)
    IN  Outcome(read_fields(s))

\* _parse_json_fallback working on raw, not on raw.strip().
_parse_json_fallback_unstripped(text) ==
    LET Or(s, embedded) == IF embedded.kind # "pass" THEN embedded ELSE whole_json(s)
        Run(s) == Or(s, embedded_json(s))
    IN  Run(strip_fence(text))

_parse_json_fallback(text) ==
    LET Or(s, embedded) == IF embedded.kind # "pass" THEN embedded ELSE whole_json(s)
        Run(s) == Or(s, embedded_json(s))
    IN  Run(strip_fence(strip(text)))

(***************************************************************************)
(* policy.py.                                                              *)
(***************************************************************************)
RSQUO == "RSQUO"

DISCLAIMER ==
    <<"N", "o", "t", "e", ":", " ", "T", "h", "i", "s", " ", "i", "s", " ", "a", "n",
      " ", "A", "I", "-", "g", "e", "n", "e", "r", "a", "t", "e", "d", ",", " ", "b",
      "e", "s", "t", "-", "e", "f", "f", "o", "r", "t", " ", "i", "n", "t", "e", "r",
      "p", "r", "e", "t", "a", "t", "i", "o", "n", " ", "o", "f", " ", "a", " ", "d",
      "o", "g", APOS, "s", " ", "b", "o", "d", "y", " ", "l", "a", "n", "g", "u", "a",
      "g", "e", ".", " ", "I", "t", " ", "m", "a", "y", " ", "b", "e", " ", "i", "n",
      "a", "c", "c", "u", "r", "a", "t", "e", ".", " ", "I", "f", " ", "y", "o", "u",
      " ", "h", "a", "v", "e", " ", "c", "o", "n", "c", "e", "r", "n", "s", " ", "a",
      "b", "o", "u", "t", " ", "t", "h", "e", " ", "d", "o", "g", RSQUO, "s", " ", "w",
      "e", "l", "l", "b", "e", "i", "n", "g", " ", "o", "r", " ", "b", "e", "h", "a",
      "v", "i", "o", "r", ",", " ", "c", "o", "n", "s", "u", "l", "t", " ", "a", " ",
      "q", "u", "a", "l", "i", "f", "i", "e", "d", " ", "p", "r", "o", "f", "e", "s",
      "s", "i", "o", "n", "a", "l", ".">>

apply_disclaimer(explanation) ==
    IF strip(explanation) = <<>> THEN DISCLAIMER
    ELSE strip(explanation) \o <<NL, NL>> \o DISCLAIMER

(***************************************************************************)
(* The texts the model answers with ("generation").                        *)
(***************************************************************************)
GenEmpty == <<>>
GenHappy ==
    <<"{", QUOTE, "e", "x", "p", "l", "a", "n", "a", "t", "i", "o", "n",
      QUOTE, ":", " ", QUOTE, "I", " ", "a", "m", " ", "a", " ", "h", "a",
      "p", "p", "y", " ", "d", "o", "g", "!", QUOTE, ",", " ", QUOTE, "c",
      "o", "n", "f", "i", "d", "e", "n", "c", "e", QUOTE, ":", " ", "0",
      ".", "9", "}">>
GenFenced ==
    <<BACKTICK, BACKTICK, BACKTICK, "j", "s", "o", "n", "\n", "{", QUOTE,
      "e", "x", "p", "l", "a", "n", "a", "t", "i", "o", "n", QUOTE, ":",
      " ", QUOTE, "I", APOS, "m", " ", "r", "e", "a", "d", "y", " ", "t",
      "o", " ", "p", "l", "a", "y", "!", QUOTE, ",", " ", QUOTE, "c", "o",
      "n", "f", "i", "d", "e", "n", "c", "e", QUOTE, ":", " ", "0", ".",
      "8", "8", "}", "\n", BACKTICK, BACKTICK, BACKTICK>>
GenProse ==
    <<"T", "h", "e", " ", "d", "o", "g", " ", "i", "s", " ", "w", "a", "g",
      "g", "i", "n", "g", " ", "i", "t", "s", " ", "t", "a", "i", "l", ".">>
GenBlank ==
    <<" ">>
GenNoExplanation ==
    <<"{", QUOTE, "c", "o", "n", "f", "i", "d", "e", "n", "c", "e", QUOTE,
      ":", " ", "0", ".", "9", "}">>
GenHigh ==
    <<"{", QUOTE, "e", "x", "p", "l", "a", "n", "a", "t", "i", "o", "n",
      QUOTE, ":", " ", QUOTE, "h", "i", QUOTE, ",", " ", QUOTE, "c", "o",
      "n", "f", "i", "d", "e", "n", "c", "e", QUOTE, ":", " ", "7", "}">>
GenNegative ==
    <<"{", QUOTE, "e", "x", "p", "l", "a", "n", "a", "t", "i", "o", "n",
      QUOTE, ":", " ", QUOTE, "h", "i", QUOTE, ",", " ", QUOTE, "c", "o",
      "n", "f", "i", "d", "e", "n", "c", "e", QUOTE, ":", " ", "-", "1", "}">>
GenLeak ==
    <<"{", QUOTE, "e", "x", "p", "l", "a", "n", "a", "t", "i", "o", "n",
      QUOTE, ":", " ", QUOTE, "{", "\\", QUOTE, "e", "x", "p", "l", "a",
      "n", "a", "t", "i", "o", "n", "\\", QUOTE, ":", " ", "\\", QUOTE,
      "h", "i", "\\", QUOTE, ",", " ", "\\", QUOTE, "c", "o", "n", "f",
      "i", "d", "e", "n", "c", "e", "\\", QUOTE, ":", " ", "0", ".", "3",
      "}", QUOTE, ",", " ", QUOTE, "c", "o", "n", "f", "i", "d", "e", "n",
      "c", "e", QUOTE, ":", " ", "0", ".", "9", "}">>

\* The answers the pipeline is run on; GenEmpty is an empty or missing generation.
Generations ==
    {GenEmpty, GenHappy, GenBlank, GenNoExplanation, GenHigh, GenNegative, GenLeak}

NoInterpretation ==
    <<"N", "o", " ", "i", "n", "t", "e", "r", "p", "r", "e", "t", "a", "t",
      "i", "o", "n", " ", "a", "v", "a", "i", "l", "a", "b", "l", "e", ".">>
UnableToInterpret ==
    <<"U", "n", "a", "b", "l", "e", " ", "t", "o", " ", "i", "n", "t", "e",
      "r", "p", "r", "e", "t", " ", "t", "h", "e", " ", "i", "m", "a", "g",
      "e", " ", "r", "i", "g", "h", "t", " ", "n", "o", "w", ".">>

(***************************************************************************)
(* The texts the normalizer is run on.  An object text is made of a        *)
(* literal for each member (or none), a raw text is taken as it is; both   *)
(* may be wrapped, and cut short at the end.                               *)
(***************************************************************************)
\* The characters a cut takes off the end of a text, at most.
MaxCut == 2

\* A literal for the "explanation" member, with the str it spells if it spells one.
ExplanationLiterals ==
    {[lit |-> <<QUOTE, "s", "a", "y", " ", "\\", QUOTE, "h", "i", "\\", QUOTE, QUOTE>>,
     isStr |-> TRUE, str |-> <<"s", "a", "y", " ", QUOTE, "h", "i", QUOTE>>],
     [lit |-> <<QUOTE, "h", "i", QUOTE>>,
     isStr |-> TRUE, str |-> <<"h", "i">>],
     [lit |-> <<QUOTE, " ", "h", "i", " ", QUOTE>>,
     isStr |-> TRUE, str |-> <<" ", "h", "i", " ">>],
     [lit |-> <<QUOTE, "\\", QUOTE, "h", "i", "\\", QUOTE, QUOTE>>,
     isStr |-> TRUE, str |-> <<QUOTE, "h", "i", QUOTE>>],
     [lit |-> <<QUOTE, "\\", QUOTE, QUOTE>>,
     isStr |-> TRUE, str |-> <<QUOTE>>],
     [lit |-> <<QUOTE, "I", " ", "a", "m", " ", "a", " ", "h", "a", "p", "p", "y", " ", "d", "o", "g", "!", QUOTE>>,
     isStr |-> TRUE, str |-> <<"I", " ", "a", "m", " ", "a", " ", "h", "a", "p", "p", "y", " ", "d", "o", "g", "!">>],
     [lit |-> <<QUOTE, "a", " ", "{", "b", "}", " ", "c", QUOTE>>,
     isStr |-> TRUE, str |-> <<"a", " ", "{", "b", "}", " ", "c">>],
     [lit |-> <<QUOTE, QUOTE>>,
     isStr |-> TRUE, str |-> <<>>],
     [lit |-> <<QUOTE, " ", QUOTE>>,
     isStr |-> TRUE, str |-> <<" ">>],
     [lit |-> <<"n", "u", "l", "l">>,
     isStr |-> FALSE, str |-> <<>>],
     [lit |-> <<"5">>,
     isStr |-> FALSE, str |-> <<>>],
     [lit |-> <<"[", QUOTE, "x", QUOTE, "]">>,
     isStr |-> FALSE, str |-> <<>>],
     [lit |-> <<"{", QUOTE, "a", QUOTE, ":", " ", "1", "}">>,
     isStr |-> FALSE, str |-> <<>>]}

\* A literal for the "confidence" member, with the number it spells if it spells one.
ConfidenceLiterals ==
    {[lit |-> <<"0", ".", "9">>,
     isNum |-> TRUE, val |-> Dec(9, 1)],
     [lit |-> <<"0">>,
     isNum |-> TRUE, val |-> Dec(0, 0)],
     [lit |-> <<"1">>,
     isNum |-> TRUE, val |-> Dec(1, 0)],
     [lit |-> <<"0", ".", "5">>,
     isNum |-> TRUE, val |-> Dec(5, 1)],
     [lit |-> <<"1", "e", "-", "1">>,
     isNum |-> TRUE, val |-> Dec(1, 1)],
     [lit |-> <<"7">>,
     isNum |-> TRUE, val |-> Dec(7, 0)],
     [lit |-> <<"-", "1">>,
     isNum |-> TRUE, val |-> Dec(-1, 0)],
     [lit |-> <<"1", ".", "5">>,
     isNum |-> TRUE, val |-> Dec(15, 1)],
     [lit |-> <<QUOTE, "0", ".", "7", QUOTE>>,
     isNum |-> FALSE, val |-> NoFloat],
     [lit |-> <<QUOTE, "x", QUOTE>>,
     isNum |-> FALSE, val |-> NoFloat],
     [lit |-> <<"n", "u", "l", "l">>,
     isNum |-> FALSE, val |-> NoFloat],
     [lit |-> <<"t", "r", "u", "e">>,
     isNum |-> FALSE, val |-> NoFloat],
     [lit |-> <<"[", "]">>,
     isNum |-> FALSE, val |-> NoFloat]}

\* Texts that are not an object with these members.
RawTexts ==
    {GenProse, GenFenced,
     <<"[", "1", ",", " ", "2", "]">>,
     <<"5">>,
     <<"0", ".", "7">>,
     <<QUOTE, "j", "u", "s", "t", " ", "a", " ", "s", "t", "r", "i", "n", "g", QUOTE>>,
     <<"n", "u", "l", "l">>,
     <<"t", "r", "u", "e">>,
     <<"E", "x", "p", "l", "a", "n", "a", "t", "i", "o", "n", ":", " ", "t", "h", "e", " ", "d", "o", "g", " ", "i", "s", " ", "h", "a", "p", "p", "y">>,
     <<"e", "x", "p", "l", "a", "n", "a", "t", "i", "o", "n">>,
     <<"H", "e", " ", "i", "s", " ", "h", "a", "p", "p", "y", "\n", "0", ".", "8">>,
     <<"H", "e", " ", "i", "s", " ", "h", "a", "p", "p", "y", "\n", "C", "o", "n", "f", "i", "d", "e", "n", "c", "e", ":", " ", "0", ".", "8">>,
     <<"H", "e", " ", "i", "s", " ", "h", "a", "p", "p", "y", "\n", "8">>,
     <<"H", "e", " ", "i", "s", " ", "h", "a", "p", "p", "y", "\n", "c", "o", "n", "f", "i", "d", "e", "n", "c", "e", " ", "0", ".", "8", ":">>,
     <<"}", "{">>,
     <<"{">>,
     <<"}">>,
     <<"{", "{", "}">>,
     <<>>,
     <<" ">>,
     <<" ", "\t", "\r", NL>>,
     <<"[", "{", QUOTE, "e", "x", "p", "l", "a", "n", "a", "t", "i", "o", "n", QUOTE, ":", " ", QUOTE, "h", "i", QUOTE, "}", "]">>,
     <<"{", QUOTE, "e", "x", "p", "l", "a", "n", "a", "t", "i", "o", "n", QUOTE, ":", " ", QUOTE, "h", "i", QUOTE, "}", " ", "{", QUOTE, "c", "o", "n", "f", "i", "d", "e", "n", "c", "e", QUOTE, ":", " ", "1", "}">>,
     <<"{", QUOTE, "a", QUOTE, ":", " ", "{", QUOTE, "e", "x", "p", "l", "a", "n", "a", "t", "i", "o", "n", QUOTE, ":", " ", QUOTE, "x", QUOTE, "}", "}">>,
     <<"{", APOS, "e", "x", "p", "l", "a", "n", "a", "t", "i", "o", "n", APOS, ":", " ", APOS, "h", "i", APOS, "}">>}

Absent == [lit |-> <<>>, isStr |-> FALSE, isNum |-> FALSE, str |-> <<>>, val |-> NoFloat]

Wrappers == {"none", "pad", "fence", "bare_fence", "indented_fence", "open_fence", "prose"}

Member(key, literal) == <<QUOTE>> \o key \o <<QUOTE, ":", " ">> \o literal.lit

ObjectText(explanation, confidence) ==
    <<"{">>
    \o join(<<",", " ">>,
            (IF explanation = Absent THEN <<>>
             ELSE <<Member(KeyExplanation, explanation)>>)
            \o (IF confidence = Absent THEN <<>>
                ELSE <<Member(KeyConfidence, confidence)>>))
    \o <<"}">>

Wrap(wrapper, text) ==
    IF wrapper = "pad" THEN <<" ">> \o text \o <<NL>>
    ELSE IF wrapper = "fence"
         THEN Fence \o <<"j", "s", "o", "n", NL>> \o text \o <<NL>> \o Fence
    ELSE IF wrapper = "bare_fence" THEN Fence \o <<NL>> \o text \o <<NL>> \o Fence
    ELSE IF wrapper = "indented_fence"
         THEN Fence \o <<"j", "s", "o", "n", NL, " ", " ">> \o text
              \o <<" ", NL, " ", " ">> \o Fence \o <<NL>>
    ELSE IF wrapper = "open_fence" THEN Fence \o <<"j", "s", "o", "n", NL>> \o text
    ELSE IF wrapper = "prose"
         THEN <<"S", "u", "r", "e", "!", " ">> \o text \o <<" ", "W", "o", "o", "f", ".">>
    ELSE text

Cut(text, cut) == SubSeq(text, 1, Len(text) - cut)

ObjectInputs ==
    [kind : {"object"},
     explanation : {[lit |-> x.lit, isStr |-> x.isStr, isNum |-> FALSE,
                     str |-> x.str, val |-> NoFloat] : x \in ExplanationLiterals}
                   \cup {Absent},
     confidence : {[lit |-> x.lit, isStr |-> FALSE, isNum |-> x.isNum,
                    str |-> <<>>, val |-> x.val] : x \in ConfidenceLiterals}
                  \cup {Absent},
     raw : {<<>>},
     wrapper : Wrappers,
     cut : 0..MaxCut]

RawInputs ==
    [kind : {"raw"}, explanation : {Absent}, confidence : {Absent}, raw : RawTexts,
     wrapper : Wrappers, cut : 0..MaxCut]

Inputs == ObjectInputs \cup RawInputs

\* The text of an input.
Text(d) ==
    Cut(Wrap(d.wrapper,
             IF d.kind = "object" THEN ObjectText(d.explanation, d.confidence)
             ELSE d.raw),
        d.cut)

(***************************************************************************)
(* The request pipeline: server._handle_interpret calls                    *)
(* InterpretationService.interpret, which calls bedrock_client             *)
(* .analyze_image and the repository.                                      *)
(***************************************************************************)
VARIABLES
    settings,     \* the Settings the process loaded from its environment
    store,        \* the interpretations table: share id -> row
    pc,           \* per request: the statement the request is at
    upload,       \* per request: the uploaded image and form fields
    invocations,  \* per request: the invoke_model calls made for it
    generation,   \* per request: the "generation" of the model's response body
    result,       \* per request: what analyze_image returned
    response,     \* per request: the response dict interpret builds
    exc,          \* per request: the exception in flight
    http,         \* per request: the HTTP response sent
    input,        \* normalizer run: the text handed to _parse_json_fallback
    output,       \* normalizer run: what _parse_json_fallback did with it
    shared,       \* per request: the share id a share read asks for
    quotas,       \* the quotas table: user id -> count
    calls,        \* per increment_quota call: the statement it is at and its locals
    given_tone,   \* instruction run: the tone handed to build_system_instruction
    instruction   \* instruction run: what build_system_instruction returned

vars == <<settings, store, pc, upload, invocations, generation, result, response, exc,
          http, input, output, shared, quotas, calls, given_tone, instruction>>
normVars == <<input, output>>
quotaVars == <<quotas, calls>>
toneVars == <<given_tone, instruction>>

None == [none |-> TRUE]

\* The requests in flight at a time.
Requests == {"r1"}

\* The share ids uuid4 can draw.
NumShareIds == 2
ShareIds == 1..NumShareIds

AcceptedTypes == {"image/jpeg", "image/png"}
ContentTypes == AcceptedTypes \cup {"image/gif", "image/jpg", "IMAGE/PNG"}

DefaultMaxUploadBytes == 6291456

\* An environment value: unset (None), set to the empty string, or set.
EnvValues == {"None", "", "set"}
Truthy(v) == v \notin {"None", ""}

get_settings(key_id, secret_key) ==
    [max_upload_bytes |-> DefaultMaxUploadBytes,
     aws_access_key_id |-> key_id,
     aws_secret_access_key |-> secret_key]

HTTPException(status_code, detail) ==
    [class |-> "HTTPException", status_code |-> status_code, detail |-> detail]
Exception(class) == [class |-> class, status_code |-> 0, detail |-> ""]

\* What the Bedrock SDK can raise: botocore's ClientError, or anything else.
SdkErrors == {"ClientError", "Exception"}

\* analyze_image, after invoke_model returned: the generation text to a result.
analyze_result(text) ==
    LET Normalized(o) ==
            [raised |-> o.exc, explanation |-> o.explanation, confidence |-> o.confidence]
    IN  IF text = <<>>
        THEN [raised |-> "", explanation |-> NoInterpretation, confidence |-> Dec(0, 0)]
        ELSE Normalized(_parse_json_fallback(text))

\* interpret, step 3 (Parse/Sanitize) and the response dict.
sanitize(res) ==
    LET Response(explanation, confidence) ==
            [status |-> "ok", explanation |-> explanation, confidence |-> confidence,
             source |-> "bedrock"]
        Leak(parsed) ==
            Response(parsed.explanation,
                     IF "confidence" \notin DOMAIN res THEN parsed.confidence
                     ELSE res.confidence)
        Clean(explanation) ==
            IF contains(explanation, <<"{">>) /\ contains(explanation, <<"}">>)
            THEN Leak(_parse_json_fallback(explanation))
            ELSE Response(explanation, res.confidence)
    IN  Clean(strip(res.explanation))

\* save_interpretation with INSERT OR REPLACE: a row of the same id is overwritten.
save_interpretation_replace(table, id, explanation, confidence, db_error) ==
    IF db_error
    THEN [raised |-> TRUE, table |-> table]
    ELSE [raised |-> FALSE,
          table |-> [i \in DOMAIN table \cup {id} |->
                        IF i = id
                        THEN [id |-> id, explanation |-> explanation,
                              confidence |-> confidence]
                        ELSE table[i]]]

\* SqliteRepository.save_interpretation: one INSERT; it raises on a database
\* error and on an id that is already a row (id is the primary key).
save_interpretation(table, id, explanation, confidence, db_error) ==
    IF db_error \/ id \in DOMAIN table
    THEN [raised |-> TRUE, table |-> table]
    ELSE [raised |-> FALSE,
          table |-> [i \in DOMAIN table \cup {id} |->
                        IF i = id
                        THEN [id |-> id, explanation |-> explanation,
                              confidence |-> confidence]
                        ELSE table[i]]]

get_interpretation(table, id) == IF id \in DOMAIN table THEN table[id] ELSE None

UpstreamFailure ==
    [status |-> "error", explanation |-> UnableToInterpret, confidence |-> Dec(0, 0),
     error |-> "upstream_failure"]

JSONResponse(status_code, content) == [status_code |-> status_code, content |-> content]

Goto(r, label) == pc' = [pc EXCEPT ![r] = label]
RaiseTo(r, e, label) == exc' = [exc EXCEPT ![r] = e] /\ Goto(r, label)

Idle ==
    /\ store = [i \in {} |-> None]
    /\ pc = [r \in Requests |-> "idle"]
    /\ upload = [r \in Requests |-> None]
    /\ invocations = [r \in Requests |-> 0]
    /\ generation = [r \in Requests |-> None]
    /\ result = [r \in Requests |-> None]
    /\ response = [r \in Requests |-> None]
    /\ exc = [r \in Requests |-> None]
    /\ http = [r \in Requests |-> None]
    /\ shared = [r \in Requests |-> None]

\* GET /api/share/{share_id}: the row as JSON, or 404 (created_at is not modelled).
get_shared_interpretation(table, share_id) ==
    LET Found(inter) ==
            IF inter = None
            THEN JSONResponse(404, [detail |-> "Not found"])
            ELSE JSONResponse(200, [id |-> inter.id, explanation |-> inter.explanation,
                                    confidence |-> inter.confidence])
    IN  Found(get_interpretation(table, share_id))

\* The users whose quota is counted and the increment_quota calls in flight.
NumQuotaUsers == 2
QuotaUsers == 1..NumQuotaUsers
NumQuotaCalls == 2
QuotaCalls == 1..NumQuotaCalls

\* What fetchone() returns: None or the row's count.
NoRow == [found |-> FALSE, count |-> 0]
Row(count) == [found |-> TRUE, count |-> count]

NoCall == [pc |-> "idle", user_id |-> 0, row |-> NoRow, c |-> 0, visible |-> FALSE]

\* No increment_quota call and no build_system_instruction run yet.
NoQuotaCalls ==
    /\ quotas = [u \in {} |-> 0]
    /\ calls = [q \in QuotaCalls |-> NoCall]
NoInstructionRun == given_tone = None /\ instruction = None

\* A client posts an image to /api/interpret.
Receive(r) ==
    /\ pc[r] = "idle"
    /\ \E content_type \in ContentTypes,
          size \in {settings.max_upload_bytes, settings.max_upload_bytes + 1},
          save \in BOOLEAN :
          upload' = [upload EXCEPT ![r] =
                        [content_type |-> content_type, size |-> size, save |-> save]]
    /\ Goto(r, "check_type")
    /\ UNCHANGED <<settings, store, invocations, generation, result, response, exc, http,
                   normVars, shared, quotaVars, toneVars>>

\* CheckContentType comparing the media type whatever its case.
CheckContentTypeAnyCase(r) ==
    /\ pc[r] = "check_type"
    /\ IF upload[r].content_type \notin AcceptedTypes \cup {"IMAGE/PNG"}
       THEN RaiseTo(r, HTTPException(400, "Unsupported file type"), "framework")
       ELSE Goto(r, "check_size") /\ UNCHANGED exc
    /\ UNCHANGED <<settings, store, upload, invocations, generation, result, response,
                   http, normVars, shared, quotaVars, toneVars>>

\* _handle_interpret: the media type check.
CheckContentType(r) ==
    /\ pc[r] = "check_type"
    /\ IF upload[r].content_type \notin AcceptedTypes
       THEN RaiseTo(r, HTTPException(400, "Unsupported file type"), "framework")
       ELSE Goto(r, "check_size") /\ UNCHANGED exc
    /\ UNCHANGED <<settings, store, upload, invocations, generation, result, response,
                   http, normVars, shared, quotaVars, toneVars>>

\* _handle_interpret: the size check on the bytes read.
CheckSize(r) ==
    /\ pc[r] = "check_size"
    /\ IF upload[r].size > settings.max_upload_bytes
       THEN RaiseTo(r, HTTPException(413, "Image too large"), "framework")
       ELSE Goto(r, "credentials") /\ UNCHANGED exc
    /\ UNCHANGED <<settings, store, upload, invocations, generation, result, response,
                   http, normVars, shared, quotaVars, toneVars>>

\* CredentialCheck testing "is None" for "not": an empty key passes.
CredentialCheckIsNone(r) ==
    /\ pc[r] = "credentials"
    /\ IF settings.aws_access_key_id = "None" \/ settings.aws_secret_access_key = "None"
       THEN RaiseTo(r, HTTPException(500, "Server misconfiguration"), "handler_except")
       ELSE Goto(r, "create_client") /\ UNCHANGED exc
    /\ UNCHANGED <<settings, store, upload, invocations, generation, result, response,
                   http, normVars, shared, quotaVars, toneVars>>

\* interpret, step 1: the credential check, before the try block.
CredentialCheck(r) ==
    /\ pc[r] = "credentials"
    /\ IF ~Truthy(settings.aws_access_key_id) \/ ~Truthy(settings.aws_secret_access_key)
       THEN RaiseTo(r, HTTPException(500, "Server misconfiguration"), "handler_except")
       ELSE Goto(r, "create_client") /\ UNCHANGED exc
    /\ UNCHANGED <<settings, store, upload, invocations, generation, result, response,
                   http, normVars, shared, quotaVars, toneVars>>

\* analyze_image: boto3.client(...), which may raise (logged and re-raised).
CreateClient(r) ==
    /\ pc[r] = "create_client"
    /\ \/ Goto(r, "build_instruction") /\ UNCHANGED exc
       \/ \E class \in SdkErrors : RaiseTo(r, Exception(class), "interpret_except")
    /\ UNCHANGED <<settings, store, upload, invocations, generation, result, response,
                   http, normVars, shared, quotaVars, toneVars>>

\* BuildInstruction going on to the invocation with the image as it was received.
BuildInstructionUnresized(r) ==
    /\ pc[r] = "build_instruction"
    /\ Goto(r, "invoke")
    /\ UNCHANGED <<settings, store, upload, invocations, generation, result, response,
                   exc, http, normVars, shared, quotaVars, toneVars>>

\* analyze_image: build_system_instruction(tone).
BuildInstruction(r) ==
    /\ pc[r] = "build_instruction"
    /\ Goto(r, "resize")
    /\ UNCHANGED <<settings, store, upload, invocations, generation, result, response,
                   exc, http, normVars, shared, quotaVars, toneVars>>

\* analyze_image: _resize_image_if_needed, which never raises.
ResizeImage(r) ==
    /\ pc[r] = "resize"
    /\ Goto(r, "invoke")
    /\ UNCHANGED <<settings, store, upload, invocations, generation, result, response,
                   exc, http, normVars, shared, quotaVars, toneVars>>

\* analyze_image: the one invoke_model call, which returns a response or raises.
InvokeModel(r) ==
    /\ pc[r] = "invoke"
    /\ invocations' = [invocations EXCEPT ![r] = @ + 1]
    /\ \/ /\ \E text \in Generations : generation' = [generation EXCEPT ![r] = text]
          /\ Goto(r, "read_body")
          /\ UNCHANGED exc
       \/ /\ \E class \in SdkErrors : RaiseTo(r, Exception(class), "analyze_except")
          /\ UNCHANGED generation
    /\ UNCHANGED <<settings, store, upload, result, response, http, normVars, shared,
                   quotaVars, toneVars>>

\* analyze_image: read and decode the body (which may raise), then normalize the
\* generation.
ReadBody(r) ==
    /\ pc[r] = "read_body"
    /\ \/ LET Returned(res) ==
                  IF res.raised # ""
                  THEN /\ RaiseTo(r, Exception(res.raised), "analyze_except")
                       /\ UNCHANGED result
                  ELSE /\ result' = [result EXCEPT ![r] =
                             [explanation |-> res.explanation,
                              confidence |-> res.confidence]]
                       /\ Goto(r, "sanitize")
                       /\ UNCHANGED exc
          IN  Returned(analyze_result(generation[r]))
       \/ RaiseTo(r, Exception("Exception"), "analyze_except") /\ UNCHANGED result
    /\ UNCHANGED <<settings, store, upload, invocations, generation, response, http,
                   normVars, shared, quotaVars, toneVars>>

\* AnalyzeExcept retrying the invocation once before it re-raises.
AnalyzeExceptRetry(r) ==
    /\ pc[r] = "analyze_except"
    /\ Goto(r, IF invocations[r] < 2 THEN "invoke" ELSE "interpret_except")
    /\ UNCHANGED <<settings, store, upload, invocations, generation, result, response,
                   exc, http, normVars, shared, quotaVars, toneVars>>

\* analyze_image: except ClientError / except Exception: log and re-raise.
AnalyzeExcept(r) ==
    /\ pc[r] = "analyze_except"
    /\ Goto(r, "interpret_except")
    /\ UNCHANGED <<settings, store, upload, invocations, generation, result, response,
                   exc, http, normVars, shared, quotaVars, toneVars>>

\* interpret, step 3.
Sanitize(r) ==
    /\ pc[r] = "sanitize"
    /\ response' = [response EXCEPT ![r] = sanitize(result[r])]
    /\ Goto(r, "persist")
    /\ UNCHANGED <<settings, store, upload, invocations, generation, result, exc, http,
                   normVars, shared, quotaVars, toneVars>>

\* Persist setting response["share_id"] before the save is attempted.
PersistShareIdFirst(r) ==
    /\ pc[r] = "persist"
    /\ IF upload[r].save
       THEN \E share_id \in ShareIds, db_error \in BOOLEAN :
               /\ store' = save_interpretation(store, share_id, response[r].explanation,
                                               response[r].confidence, db_error).table
               /\ response' = [response EXCEPT ![r] =
                     [status |-> @.status, explanation |-> @.explanation,
                      confidence |-> @.confidence, source |-> @.source,
                      share_id |-> share_id]]
       ELSE UNCHANGED <<store, response>>
    /\ Goto(r, "respond")
    /\ UNCHANGED <<settings, upload, invocations, generation, result, exc, http, normVars,
                   shared, quotaVars, toneVars>>

\* Persist saving whether or not the request asked for it.
PersistIgnoringSave(r) ==
    /\ pc[r] = "persist"
    /\ \E share_id \in ShareIds, db_error \in BOOLEAN :
          LET Saved(saved) ==
                  IF saved.raised
                  THEN UNCHANGED <<store, response>>
                  ELSE /\ store' = saved.table
                       /\ response' = [response EXCEPT ![r] =
                             [status |-> @.status, explanation |-> @.explanation,
                              confidence |-> @.confidence, source |-> @.source,
                              share_id |-> share_id]]
          IN  Saved(save_interpretation(store, share_id, response[r].explanation,
                                        response[r].confidence, db_error))
    /\ Goto(r, "respond")
    /\ UNCHANGED <<settings, upload, invocations, generation, result, exc, http, normVars,
                   shared, quotaVars, toneVars>>

\* Persist with INSERT OR REPLACE for the INSERT.
PersistReplace(r) ==
    /\ pc[r] = "persist"
    /\ IF upload[r].save
       THEN \E share_id \in ShareIds, db_error \in BOOLEAN :
               LET Saved(saved) ==
                       IF saved.raised
                       THEN UNCHANGED <<store, response>>
                       ELSE /\ store' = saved.table
                            /\ response' = [response EXCEPT ![r] =
                                  [status |-> @.status, explanation |-> @.explanation,
                                   confidence |-> @.confidence, source |-> @.source,
                                   share_id |-> share_id]]
               IN  Saved(save_interpretation_replace(store, share_id,
                                                     response[r].explanation,
                                                     response[r].confidence, db_error))
       ELSE UNCHANGED <<store, response>>
    /\ Goto(r, "respond")
    /\ UNCHANGED <<settings, upload, invocations, generation, result, exc, http, normVars,
                   shared, quotaVars, toneVars>>

\* interpret, step 4: if save and repo, insert under a fresh uuid4; a failure is
\* logged and swallowed.  Then return response.
Persist(r) ==
    /\ pc[r] = "persist"
    /\ IF upload[r].save
       THEN \E share_id \in ShareIds, db_error \in BOOLEAN :
               LET Saved(saved) ==
                       IF saved.raised
                       THEN UNCHANGED <<store, response>>
                       ELSE /\ store' = saved.table
                            /\ response' = [response EXCEPT ![r] =
                                  [status |-> @.status, explanation |-> @.explanation,
                                   confidence |-> @.confidence, source |-> @.source,
                                   share_id |-> share_id]]
               IN  Saved(save_interpretation(store, share_id, response[r].explanation,
                                             response[r].confidence, db_error))
       ELSE UNCHANGED <<store, response>>
    /\ Goto(r, "respond")
    /\ UNCHANGED <<settings, upload, invocations, generation, result, exc, http, normVars,
                   shared, quotaVars, toneVars>>

\* InterpretExcept turning the exception into an HTTPException(500).
InterpretExceptWrap(r) ==
    /\ pc[r] = "interpret_except"
    /\ RaiseTo(r, HTTPException(500, exc[r].class), "handler_except")
    /\ UNCHANGED <<settings, store, upload, invocations, generation, result, response,
                   http, normVars, shared, quotaVars, toneVars>>

\* interpret: except HTTPException: raise / except Exception: raise e.
InterpretExcept(r) ==
    /\ pc[r] = "interpret_except"
    /\ Goto(r, "handler_except")
    /\ UNCHANGED <<settings, store, upload, invocations, generation, result, response,
                   exc, http, normVars, shared, quotaVars, toneVars>>

\* _handle_interpret: the success response.
Respond(r) ==
    /\ pc[r] = "respond"
    /\ http' = [http EXCEPT ![r] = JSONResponse(200, response[r])]
    /\ Goto(r, "done")
    /\ UNCHANGED <<settings, store, upload, invocations, generation, result, response,
                   exc, normVars, shared, quotaVars, toneVars>>

\* _handle_interpret: except HTTPException: raise / except Exception: the 502.
HandlerExcept(r) ==
    /\ pc[r] = "handler_except"
    /\ IF exc[r].class = "HTTPException"
       THEN Goto(r, "framework") /\ UNCHANGED http
       ELSE /\ http' = [http EXCEPT ![r] = JSONResponse(502, UpstreamFailure)]
            /\ Goto(r, "done")
    /\ UNCHANGED <<settings, store, upload, invocations, generation, result, response,
                   exc, normVars, shared, quotaVars, toneVars>>

\* FastAPI answers an HTTPException with its status code and detail.
FrameworkError(r) ==
    /\ pc[r] = "framework"
    /\ http' = [http EXCEPT ![r] =
                  JSONResponse(exc[r].status_code, [detail |-> exc[r].detail])]
    /\ Goto(r, "done")
    /\ UNCHANGED <<settings, store, upload, invocations, generation, result, response,
                   exc, normVars, shared, quotaVars, toneVars>>

\* The request is over; its slot takes the next one.
Finish(r) ==
    /\ pc[r] = "done"
    /\ Goto(r, "idle")
    /\ upload' = [upload EXCEPT ![r] = None]
    /\ invocations' = [invocations EXCEPT ![r] = 0]
    /\ generation' = [generation EXCEPT ![r] = None]
    /\ result' = [result EXCEPT ![r] = None]
    /\ response' = [response EXCEPT ![r] = None]
    /\ exc' = [exc EXCEPT ![r] = None]
    /\ http' = [http EXCEPT ![r] = None]
    /\ shared' = [shared EXCEPT ![r] = None]
    /\ UNCHANGED <<settings, store, normVars, quotaVars, toneVars>>

\* A client asks for a shared interpretation: GET /api/share/{share_id}.
ReceiveShare(r) ==
    /\ pc[r] = "idle"
    /\ \E share_id \in ShareIds : shared' = [shared EXCEPT ![r] = [share_id |-> share_id]]
    /\ Goto(r, "get_shared")
    /\ UNCHANGED <<settings, store, upload, invocations, generation, result, response,
                   exc, http, normVars, quotaVars, toneVars>>

\* get_shared_interpretation: the row as JSON, or HTTPException(404).
GetSharedInterpretation(r) ==
    /\ pc[r] = "get_shared"
    /\ LET Answer(answer) ==
               IF answer.status_code = 404
               THEN /\ RaiseTo(r, HTTPException(404, answer.content.detail), "framework")
                    /\ UNCHANGED http
               ELSE /\ http' = [http EXCEPT ![r] = answer]
                    /\ Goto(r, "done")
                    /\ UNCHANGED exc
       IN  Answer(get_shared_interpretation(store, shared[r].share_id))
    /\ UNCHANGED <<settings, store, upload, invocations, generation, result, response,
                   normVars, shared, quotaVars, toneVars>>

Init ==
    /\ \E key_id \in EnvValues, secret_key \in EnvValues :
          settings = get_settings(key_id, secret_key)
    /\ Idle
    /\ input = None
    /\ output = None
    /\ NoQuotaCalls
    /\ NoInstructionRun

Next ==
    \/ \E r \in Requests : Receive(r)
    \/ \E r \in Requests : CheckContentType(r)
    \/ \E r \in Requests : CheckSize(r)
    \/ \E r \in Requests : CredentialCheck(r)
    \/ \E r \in Requests : CreateClient(r)
    \/ \E r \in Requests : BuildInstruction(r)
    \/ \E r \in Requests : ResizeImage(r)
    \/ \E r \in Requests : InvokeModel(r)
    \/ \E r \in Requests : ReadBody(r)
    \/ \E r \in Requests : AnalyzeExcept(r)
    \/ \E r \in Requests : Sanitize(r)
    \/ \E r \in Requests : Persist(r)
    \/ \E r \in Requests : InterpretExcept(r)
    \/ \E r \in Requests : Respond(r)
    \/ \E r \in Requests : HandlerExcept(r)
    \/ \E r \in Requests : FrameworkError(r)
    \/ \E r \in Requests : Finish(r)
    \/ \E r \in Requests : ReceiveShare(r)
    \/ \E r \in Requests : GetSharedInterpretation(r)

Spec == Init /\ [][Next]_vars

(***************************************************************************)
(* The normalizer on its own: _parse_json_fallback applied to a text.      *)
(***************************************************************************)
InitNormalizer ==
    /\ settings = get_settings("set", "set")
    /\ Idle
    /\ input \in Inputs
    /\ output = None
    /\ NoQuotaCalls
    /\ NoInstructionRun

\* _parse_json_fallback(text)
Normalize ==
    /\ output = None
    /\ output' = _parse_json_fallback(Text(input))
    /\ UNCHANGED <<settings, store, pc, upload, invocations, generation, result,
                   response, exc, http, input, shared, quotaVars, toneVars>>

NextNormalizer == Normalize

SpecNormalizer == InitNormalizer /\ [][NextNormalizer]_vars

(***************************************************************************)
(* The normalizer's properties (under SpecNormalizer).                     *)
(***************************************************************************)
IsStr(x) == DOMAIN x = 1..Len(x) /\ \A i \in DOMAIN x : x[i] \in STRING
IsFloat(x) == DOMAIN x = {"m", "e"} /\ x.m \in Int /\ x.e \in Int

\* C1: _parse_json_fallback is total: whatever the text (malformed or truncated
\* embedded JSON, unbalanced braces, JSON that is no object, members of the wrong
\* type), it never raises and returns an explanation that is a str and a
\* confidence that is a float.
C1_NormalizerTotal ==
    output # None =>
        /\ output.kind = "return"
        /\ IsStr(output.explanation)
        /\ IsFloat(output.confidence)

\* A truncated object whose confidence is null was normalized.
C1_Witness ==
    /\ output # None
    /\ input.kind = "object"
    /\ input.confidence.lit = <<"n", "u", "l", "l">>
    /\ input.cut = 1
    /\ output.kind = "return"

\* The input is the object {"explanation": E, "confidence": C}, E a non-empty
\* string and C a number in [0,1].
ValidObject(d) ==
    /\ d.kind = "object"
    /\ d.wrapper = "none"
    /\ d.cut = 0
    /\ d.explanation.isStr
    /\ d.explanation.str # <<>>
    /\ d.confidence.isNum
    /\ InUnitInterval(d.confidence.val)

\* E has no whitespace at either end and is not held between two double quotes.
Bare(E) == E = strip(E) /\ ~(startswith(E, <<QUOTE>>) /\ endswith(E, <<QUOTE>>))

\* C2, as the spec states it: for a valid object {"explanation": E, "confidence": C},
\* E non-empty and C in [0,1], the normalizer returns exactly E and C.
C2_ExactAsStated ==
    (output # None /\ ValidObject(input)) =>
        /\ output.kind = "return"
        /\ output.explanation = input.explanation.str
        /\ output.confidence = input.confidence.val

\* C2, amended: for a valid object {"explanation": E, "confidence": C}, E non-empty
\* with no whitespace at either end and not held between two double quotes, C in
\* [0,1], the normalizer returns exactly E and C.
C2_ExactForBareExplanation ==
    (output # None /\ ValidObject(input) /\ Bare(input.explanation.str)) =>
        /\ output.kind = "return"
        /\ output.explanation = input.explanation.str
        /\ output.confidence = input.confidence.val

\* A valid object whose explanation ends with a double quote, confidence 1e-1, was
\* normalized.
C2_Witness ==
    /\ output # None
    /\ ValidObject(input)
    /\ Bare(input.explanation.str)
    /\ endswith(input.explanation.str, <<QUOTE>>)
    /\ input.confidence.lit = <<"1", "e", "-", "1">>

(***************************************************************************)
(* The pipeline's properties (under Spec).                                 *)
(***************************************************************************)
\* The interpret request was answered with the success payload.
Succeeded(r) == upload[r] # None /\ pc[r] = "done" /\ http[r].status_code = 200

\* C3, as the spec states it: the confidence of every result analyze_image gets
\* from the normalizer, and of every success payload, lies in [0,1].
C3_ConfidenceInUnitInterval ==
    \A r \in Requests :
        /\ result[r] # None => InUnitInterval(result[r].confidence)
        /\ Succeeded(r) => InUnitInterval(http[r].content.confidence)

\* C4, as the spec states it: every success payload has a non-empty explanation.
C4_ExplanationNonEmpty ==
    \A r \in Requests : Succeeded(r) => http[r].content.explanation # <<>>

\* C5, as the spec states it: the explanation of every success payload is the
\* normalized explanation with the disclaimer applied (the disclaimer alone for an
\* empty explanation).
C5_DisclaimerApplied ==
    \A r \in Requests :
        Succeeded(r) =>
            http[r].content.explanation = apply_disclaimer(sanitize(result[r]).explanation)

\* A success payload with confidence 7 was sent.
C3_Witness ==
    \E r \in Requests : Succeeded(r) /\ http[r].content.confidence = Dec(7, 0)

\* A success payload with an empty explanation was sent for a generation that has
\* no "explanation" member.
C4_Witness ==
    \E r \in Requests :
        /\ Succeeded(r)
        /\ generation[r] = GenNoExplanation
        /\ http[r].content.explanation = <<>>

\* The success payload for the generation {"explanation": "I am a happy dog!",
\* "confidence": 0.9} was sent with the explanation as the normalizer returned it.
C5_Witness ==
    \E r \in Requests :
        /\ Succeeded(r)
        /\ generation[r] = GenHappy
        /\ http[r].content.explanation = result[r].explanation
        /\ http[r].content.confidence = Dec(9, 1)

BadType(u) == u.content_type \notin AcceptedTypes
Oversize(u) == u.size > settings.max_upload_bytes

\* C6, as the spec states it: a request whose media type is not image/jpeg or
\* image/png is answered 400, a request whose body exceeds max_upload_bytes is
\* answered 413; neither invokes the model nor persists anything.
C6_RejectedAsStated ==
    [][\A r \in Requests :
          (upload'[r] # None /\ (BadType(upload'[r]) \/ Oversize(upload'[r]))) =>
              /\ invocations'[r] = 0
              /\ store' = store
              /\ (pc'[r] = "done" /\ BadType(upload'[r])) => http'[r].status_code = 400
              /\ (pc'[r] = "done" /\ Oversize(upload'[r])) => http'[r].status_code = 413
      ]_vars

\* C6, amended: a request whose media type is not image/jpeg or image/png is
\* answered 400, a request of an accepted media type whose body exceeds
\* max_upload_bytes is answered 413; neither invokes the model nor persists
\* anything.
C6_RejectedTypeFirst ==
    [][\A r \in Requests :
          (upload'[r] # None /\ (BadType(upload'[r]) \/ Oversize(upload'[r]))) =>
              /\ invocations'[r] = 0
              /\ store' = store
              /\ (pc'[r] = "done" /\ BadType(upload'[r])) => http'[r].status_code = 400
              /\ (pc'[r] = "done" /\ ~BadType(upload'[r]) /\ Oversize(upload'[r])) =>
                    http'[r].status_code = 413
      ]_vars

\* An oversize image/png upload was answered 413 while the store held a row.
C6_Witness ==
    \E r \in Requests :
        /\ pc[r] = "done"
        /\ upload[r] # None
        /\ upload[r].content_type = "image/png"
        /\ Oversize(upload[r])
        /\ http[r].status_code = 413
        /\ store # <<>>

CredentialsAbsent ==
    ~Truthy(settings.aws_access_key_id) \/ ~Truthy(settings.aws_secret_access_key)

\* C7: when the access key id or the secret access key is absent, a request that
\* reaches interpret never invokes the model and is answered 500, not the 502
\* upstream_failure payload.
C7_ConfigurationError ==
    \A r \in Requests :
        (CredentialsAbsent /\ upload[r] # None) =>
            /\ invocations[r] = 0
            /\ (pc[r] = "done" /\ ~BadType(upload[r]) /\ ~Oversize(upload[r])) =>
                  /\ http[r].status_code = 500
                  /\ http[r].content # UpstreamFailure

\* With an empty secret access key a valid upload was answered 500.
C7_Witness ==
    \E r \in Requests :
        /\ settings.aws_access_key_id = "set"
        /\ settings.aws_secret_access_key = ""
        /\ pc[r] = "done"
        /\ upload[r] # None
        /\ ~BadType(upload[r]) /\ ~Oversize(upload[r])
        /\ http[r].status_code = 500

\* C8: a request invokes the model at most once, also after the invocation
\* failed, and a request answered with the success payload invoked it once.
C8_SingleInvocation ==
    \A r \in Requests :
        /\ invocations[r] <= 1
        /\ Succeeded(r) => invocations[r] = 1

\* A request whose invocation raised ClientError ended after that one call.
C8_Witness ==
    \E r \in Requests :
        /\ pc[r] = "done"
        /\ invocations[r] = 1
        /\ generation[r] = None
        /\ exc[r] = Exception("ClientError")

\* interpret was called with credentials and analyze_image did not return: the
\* client creation, invoke_model or the reading of the body raised.
InvocationRaised(r) ==
    /\ upload[r] # None
    /\ ~BadType(upload[r]) /\ ~Oversize(upload[r])
    /\ ~CredentialsAbsent
    /\ pc[r] = "done"
    /\ result[r] = None

\* C9: when client creation, invoke_model or the reading of the body raises, the
\* exception reaches _handle_interpret as it was raised and the answer is 502 with
\* the fixed payload, which holds neither the cause nor a share_id.
C9_UpstreamFailure ==
    \A r \in Requests :
        InvocationRaised(r) =>
            /\ exc[r] # None
            /\ exc[r].class \in SdkErrors
            /\ http[r] = JSONResponse(502, UpstreamFailure)
            /\ DOMAIN http[r].content = {"status", "explanation", "confidence", "error"}

\* The reading of the response body raised and the request was answered.
C9_Witness ==
    \E r \in Requests :
        /\ InvocationRaised(r)
        /\ generation[r] # None
        /\ exc[r] = Exception("Exception")
        /\ http[r].status_code = 502

C11_SavedOnlyOnRequest ==
    [][/\ store' # store =>
             \E r \in Requests :
                 /\ pc[r] = "persist" /\ pc'[r] = "respond"
                 /\ upload[r].save
                 /\ exc[r] = None
                 /\ result[r] # None
                 /\ response[r] # None
                 /\ DOMAIN store' = DOMAIN store \cup {response'[r].share_id}
                 /\ \A id \in DOMAIN store : store'[id] = store[id]
       /\ \A r \in Requests :
             /\ exc[r] # None => response[r] = None
             /\ (upload[r] # None /\ ~upload[r].save /\ response[r] # None) =>
                   "share_id" \notin DOMAIN response[r]
      ]_vars

\* A request that asked for a save ended in the upstream failure while the table
\* held a row.
C11_Witness ==
    \E r \in Requests :
        /\ pc[r] = "done"
        /\ upload[r] # None
        /\ upload[r].save
        /\ http[r].status_code = 502
        /\ store # <<>>

DefaultPersona ==
    [role |->
        <<"Y", "o", "u", " ", "a", "r", "e", " ", "t", "h", "e", " ", "d", "o", "g",
          " ", "i", "n", " ", "t", "h", "e", " ", "p", "i", "c", "t", "u", "r", "e",
          ".", " ", "S", "p", "e", "a", "k", " ", "i", "n", " ", "t", "h", "e", " ",
          "f", "i", "r", "s", "t", "-", "p", "e", "r", "s", "o", "n", " ", "(", APOS,
          "I", APOS, ")", ".">>,
     style |->
        <<"F", "r", "i", "e", "n", "d", "l", "y", ",", " ", "s", "i", "m", "p", "l",
          "e", ",", " ", "a", "n", "d", " ", "d", "i", "r", "e", "c", "t", ".">>,
     content |->
        <<"D", "e", "s", "c", "r", "i", "b", "e", " ", "m", "y", " ", "b", "o", "d",
          "y", " ", "l", "a", "n", "g", "u", "a", "g", "e", ",", " ", "h", "o", "w",
          " ", "I", " ", "f", "e", "e", "l", ",", " ", "a", "n", "d", " ", "w", "h",
          "a", "t", " ", "I", " ", "w", "a", "n", "t", ".">>]

\* if t == "playful": style and content are assigned.
PlayfulPersona ==
    [role |-> DefaultPersona.role,
     style |->
        <<"S", "u", "p", "e", "r", " ", "e", "x", "c", "i", "t", "e", "d", ",", " ",
          "h", "i", "g", "h", "-", "e", "n", "e", "r", "g", "y", ",", " ", "h", "a",
          "p", "p", "y", "!", " ", "U", "s", "e", " ", "e", "x", "c", "l", "a", "m",
          "a", "t", "i", "o", "n", " ", "m", "a", "r", "k", "s", "!", " ", "S", "h",
          "o", "r", "t", ",", " ", "p", "u", "n", "c", "h", "y", " ", "s", "e", "n",
          "t", "e", "n", "c", "e", "s", ".">>,
     content |->
        <<"F", "o", "c", "u", "s", " ", "o", "n", " ", "h", "o", "w", " ", "m", "u",
          "c", "h", " ", "f", "u", "n", " ", "I", APOS, "m", " ", "h", "a", "v", "i",
          "n", "g", " ", "o", "r", " ", "w", "a", "n", "t", " ", "t", "o", " ", "h",
          "a", "v", "e", "!", " ", "U", "s", "e", " ", "w", "o", "r", "d", "s", " ",
          "l", "i", "k", "e", " ", APOS, "Z", "o", "o", "m", "i", "e", "s", APOS,
          ",", " ", APOS, "P", "l", "a", "y", APOS, ",", " ", APOS, "F", "u", "n",
          APOS, "!">>]

\* elif t == "calm": style and content are assigned.
CalmPersona ==
    [role |-> DefaultPersona.role,
     style |->
        <<"S", "o", "f", "t", ",", " ", "s", "o", "o", "t", "h", "i", "n", "g", ",",
          " ", "s", "l", "o", "w", ",", " ", "a", "n", "d", " ", "z", "e", "n", "-",
          "l", "i", "k", "e", ".">>,
     content |->
        <<"F", "o", "c", "u", "s", " ", "o", "n", " ", "m", "y", " ", "r", "e", "l",
          "a", "x", "a", "t", "i", "o", "n", " ", "a", "n", "d", " ", "p", "e", "a",
          "c", "e", ".", " ", "U", "s", "e", " ", "c", "a", "l", "m", "i", "n", "g",
          " ", "w", "o", "r", "d", "s", ".">>]

\* elif t == "trainer": role, style and content are assigned.
TrainerPersona ==
    [role |->
        <<"Y", "o", "u", " ", "a", "r", "e", " ", "t", "h", "e", " ", "d", "o", "g",
          ",", " ", "b", "u", "t", " ", "y", "o", "u", " ", "r", "e", "l", "y", " ",
          "o", "n", " ", "p", "r", "o", "f", "e", "s", "s", "i", "o", "n", "a", "l",
          " ", "d", "o", "g", " ", "b", "e", "h", "a", "v", "i", "o", "r", "i", "s",
          "t", " ", "k", "n", "o", "w", "l", "e", "d", "g", "e", ".">>,
     style |->
        <<"A", "n", "a", "l", "y", "t", "i", "c", "a", "l", ",", " ", "c", "l", "e",
          "a", "r", ",", " ", "a", "n", "d", " ", "i", "n", "s", "t", "r", "u", "c",
          "t", "i", "v", "e", ".", " ", "U", "s", "e", " ", APOS, "I", APOS, " ",
          "s", "t", "a", "t", "e", "m", "e", "n", "t", "s", " ", "b", "u", "t", " ",
          "e", "x", "p", "l", "a", "i", "n", " ", "t", "h", "e", " ", APOS, "W", "h",
          "y", APOS, ".">>,
     content |->
        <<"A", "n", "a", "l", "y", "i", "z", "e", " ", "m", "y", " ", "s", "p", "e",
          "c", "i", "f", "i", "c", " ", "b", "o", "d", "y", " ", "l", "a", "n", "g",
          "u", "a", "g", "e", " ", "s", "i", "g", "n", "a", "l", "s", " ", "(", "e",
          "a", "r", "s", ",", " ", "t", "a", "i", "l", ",", " ", "e", "y", "e", "s",
          ",", " ", "m", "o", "u", "t", "h", ")", ".", " ", "T", "h", "e", "n", ",",
          " ", "c", "o", "n", "c", "l", "u", "d", "e", " ", "w", "i", "t", "h", " ",
          "a", " ", "s", "p", "e", "c", "i", "f", "i", "c", " ", APOS, "H", "a", "n",
          "d", "l", "i", "n", "g", " ", "T", "i", "p", APOS, " ", "f", "o", "r", " ",
          "t", "h", "e", " ", "o", "w", "n", "e", "r", " ", "o", "n", " ", "w", "h",
          "a", "t", " ", "t", "o", " ", "d", "o", " ", "n", "e", "x", "t", ".">>]

\* The text every instruction ends with.
CoreDirective ==
    <<"C", "O", "R", "E", " ", "D", "I", "R", "E", "C", "T", "I", "V", "E", ":", " ",
      "Y", "o", "u", " ", "a", "r", "e", " ", "a", " ", "D", "o", "g", " ", "T", "r",
      "a", "n", "s", "l", "a", "t", "o", "r", ".", " ", "Y", "o", "u", "r", " ", "j",
      "o", "b", " ", "i", "s", " ", "t", "o", " ", "l", "o", "o", "k", " ", "a", "t",
      " ", "t", "h", "e", " ", "d", "o", "g", APOS, "s", " ", "b", "o", "d", "y",
      " ", "l", "a", "n", "g", "u", "a", "g", "e", " ", "(", "e", "a", "r", "s", ",",
      " ", "t", "a", "i", "l", ",", " ", "e", "y", "e", "s", ",", " ", "p", "o", "s",
      "t", "u", "r", "e", ")", " ", "a", "n", "d", " ", APOS, "t", "r", "a", "n",
      "s", "l", "a", "t", "e", APOS, " ", "i", "t", " ", "i", "n", "t", "o", " ",
      "h", "u", "m", "a", "n", " ", "w", "o", "r", "d", "s", ".", "\n", "1", ".",
      " ", "I", "G", "N", "O", "R", "E", " ", "t", "h", "e", " ", "b", "a", "c", "k",
      "g", "r", "o", "u", "n", "d", ",", " ", "r", "u", "g", ",", " ", "f", "u", "r",
      "n", "i", "t", "u", "r", "e", ",", " ", "o", "r", " ", "h", "u", "m", "a", "n",
      "s", " ", "u", "n", "l", "e", "s", "s", " ", "t", "h", "e", "y", " ", "d", "i",
      "r", "e", "c", "t", "l", "y", " ", "a", "f", "f", "e", "c", "t", " ", "m", "y",
      " ", "m", "o", "o", "d", ".", "\n", "2", ".", " ", "D", "O", " ", "N", "O",
      "T", " ", "d", "e", "s", "c", "r", "i", "b", "e", " ", "t", "h", "e", " ", "i",
      "m", "a", "g", "e", " ", "(", "e", ".", "g", ".", ",", " ", APOS, "I", " ",
      "a", "m", " ", "s", "i", "t", "t", "i", "n", "g", " ", "o", "n", " ", "a", " ",
      "r", "u", "g", APOS, ")", ".", " ", "I", "n", "s", "t", "e", "a", "d", ",",
      " ", "s", "a", "y", " ", APOS, "I", APOS, "m", " ", "f", "e", "e", "l", "i",
      "n", "g", " ", "r", "e", "l", "a", "x", "e", "d", " ", "a", "n", "d", " ", "j",
      "u", "s", "t", " ", "w", "a", "n", "t", " ", "t", "o", " ", "c", "h", "i", "l",
      "l", ".", APOS, "\n", "3", ".", " ", "I", "n", "t", "e", "r", "p", "r", "e",
      "t", " ", "s", "i", "g", "n", "a", "l", "s", ":", " ", "E", "a", "r", "s", " ",
      "b", "a", "c", "k", "?", " ", "I", APOS, "m", " ", "w", "o", "r", "r", "i",
      "e", "d", ".", " ", "T", "a", "i", "l", " ", "w", "a", "g", "g", "i", "n", "g",
      "?", " ", "I", APOS, "m", " ", "h", "a", "p", "p", "y", ".", " ", "T", "e",
      "e", "t", "h", " ", "b", "a", "r", "e", "d", "?", " ", "B", "a", "c", "k", " ",
      "o", "f", "f", ".", "\n", "4", ".", " ", "O", "u", "t", "p", "u", "t", " ",
      "f", "o", "r", "m", "a", "t", ":", " ", "J", "S", "O", "N", " ", "O", "N", "L",
      "Y", " ", "{", "{", APOS, "e", "x", "p", "l", "a", "n", "a", "t", "i", "o",
      "n", APOS, ":", " ", APOS, ".", ".", ".", APOS, ",", " ", APOS, "c", "o", "n",
      "f", "i", "d", "e", "n", "c", "e", APOS, ":", " ", "0", ".", "9", "}", "}",
      "\n", "5", ".", " ", "T", "h", "e", " ", APOS, "e", "x", "p", "l", "a", "n",
      "a", "t", "i", "o", "n", APOS, " ", "m", "u", "s", "t", " ", "b", "e", " ",
      "M", "E", " ", "s", "p", "e", "a", "k", "i", "n", "g", " ", "t", "o", " ", "Y",
      "O", "U", ".">>

TonePlayful == <<"p", "l", "a", "y", "f", "u", "l">>
ToneCalm == <<"c", "a", "l", "m">>
ToneTrainer == <<"t", "r", "a", "i", "n", "e", "r">>
ToneDefault == <<"d", "e", "f", "a", "u", "l", "t">>

\* The tone argument, an Optional[str]: None or a str.
NoTone == [none |-> TRUE, str |-> <<>>]
StrTone(s) == [none |-> FALSE, str |-> s]

\* build_system_instruction, with the literal the "calm" branch compares t with.
instruction_for(tone, calm) ==
    LET Format(p) ==
            p.role \o <<NL>>
            \o <<"S", "t", "y", "l", "e", ":", " ">> \o p.style \o <<NL>>
            \o <<"T", "a", "s", "k", ":", " ">> \o p.content \o <<NL, NL>>
            \o CoreDirective
        Branch(t) ==
            IF t = TonePlayful THEN PlayfulPersona
            ELSE IF t = calm THEN CalmPersona
            ELSE IF t = ToneTrainer THEN TrainerPersona
            ELSE DefaultPersona
    IN  Format(Branch(lower(strip(IF tone.none \/ tone.str = <<>> THEN <<>> ELSE tone.str))))

\* build_system_instruction with the "calm" branch misspelt.
build_system_instruction_clam(tone) == instruction_for(tone, <<"c", "l", "a", "m">>)

build_system_instruction(tone) == instruction_for(tone, ToneCalm)

\* The tones the builder is run on: a word, in some case, with some padding; or None.
ToneWords ==
    {ToneDefault, TonePlayful, ToneCalm, ToneTrainer, <<>>,
     <<"h", "a", "p", "p", "y">>,
     <<"t", "r", "a", "i", "n", "e", "r", "s">>,
     <<"p", "l", "a", "y", " ", "f", "u", "l">>,
     <<"c", "l", "a", "m">>}
ToneCases == {"lower", "upper", "capital"}
TonePads == {"none", "left", "right", "both"}

upper_char(c) ==
    LET Map(hits) == IF hits = {} THEN c ELSE UpperCase[Min(hits)]
    IN  Map({i \in 1..26 : LowerCase[i] = c})

ToneCase(case, word) ==
    [i \in 1..Len(word) |->
        IF case = "upper" \/ (case = "capital" /\ i = 1) THEN upper_char(word[i])
        ELSE word[i]]

TonePad(pad, word) ==
    (IF pad \in {"left", "both"} THEN <<" ">> ELSE <<>>)
    \o word
    \o (IF pad \in {"right", "both"} THEN <<"\t", NL>> ELSE <<>>)

Tones ==
    {[none |-> TRUE, pad |-> "none", case |-> "lower", word |-> <<>>]}
    \cup [none : {FALSE}, pad : TonePads, case : ToneCases, word : ToneWords]

\* The tone argument an input stands for.
ToneText(d) ==
    IF d.none THEN NoTone ELSE StrTone(TonePad(d.pad, ToneCase(d.case, d.word)))

InitInstruction ==
    /\ settings = get_settings("set", "set")
    /\ Idle
    /\ input = None
    /\ output = None
    /\ NoQuotaCalls
    /\ given_tone \in Tones
    /\ instruction = None

\* build_system_instruction(tone)
BuildSystemInstruction ==
    /\ instruction = None
    /\ instruction' = build_system_instruction(ToneText(given_tone))
    /\ UNCHANGED <<settings, store, pc, upload, invocations, generation, result,
                   response, exc, http, normVars, shared, quotaVars, given_tone>>

NextInstruction == BuildSystemInstruction

SpecInstruction == InitInstruction /\ [][NextInstruction]_vars

\* What the builder compares with its literals: the tone trimmed, in lower case.
ToneKey(t) == lower(strip(t.str))

\* C13: build_system_instruction returns a str for every tone; the instructions
\* for the tones default, playful, calm and trainer differ from each other; and
\* for a tone that is None, empty or, trimmed and in lower case, none of playful,
\* calm and trainer, it returns the instruction it returns for default.
C13_InstructionPerTone ==
    instruction # None =>
        /\ IsStr(instruction)
        /\ \A other \in {ToneDefault, TonePlayful, ToneCalm, ToneTrainer} :
              ToneKey(ToneText(given_tone))
                  \in {ToneDefault, TonePlayful, ToneCalm, ToneTrainer} \ {other} =>
                      instruction # build_system_instruction(StrTone(other))
        /\ ToneKey(ToneText(given_tone)) \notin {TonePlayful, ToneCalm, ToneTrainer} =>
              /\ instruction = build_system_instruction(StrTone(ToneDefault))
              /\ instruction = build_system_instruction(NoTone)

\* The instruction for the tone "calm" was built, and differs from the one for None.
C13_Witness ==
    /\ ToneText(given_tone) = StrTone(ToneCalm)
    /\ instruction # None
    /\ instruction # build_system_instruction(NoTone)

(***************************************************************************)
(* The normalizer on plain text and on fenced objects (under               *)
(* SpecNormalizer).                                                        *)
(***************************************************************************)
BraceFree(T) == ~contains(T, <<"{">>) /\ ~contains(T, <<"}">>)

\* The last non-empty line of T, or what follows the first colon of that line when
\* the line says "confidence", reads as a float.
LastLineIsFloat(T) ==
    LET Number(lines) ==
            /\ lines # <<>>
            /\ float_of_str(text_to_parse(lines[Len(lines)])).exc = ""
    IN  Number(non_empty_lines(strip(T)))

\* The last non-empty line of T reads, in that way, as a float in [0,1].
LastLineIsConfidence(T) ==
    LET Number(val) == val.exc = "" /\ InUnitInterval(val.val)
        Last(lines) ==
            /\ lines # <<>>
            /\ Number(float_of_str(text_to_parse(lines[Len(lines)])))
    IN  Last(non_empty_lines(strip(T)))

SaysExplanation(T) == contains(lower(T), KeyExplanation)
LeadingFence(T) == startswith(strip(T), Fence)

\* C14, as the spec states it: for every text T without '{' and '}', the normalizer
\* returns explanation T and confidence 0.5.
C14_NoOpAsStated ==
    (output # None /\ BraceFree(Text(input))) =>
        output = Return(Text(input), DefaultConfidence)

\* C14, amended: for every text T without '{' and '}' that has no whitespace at
\* either end, does not begin with a fence, does not contain "explanation" in any
\* case, and whose last non-empty line does not read as a float in [0,1] (itself,
\* or after its first colon when it says "confidence"), the normalizer returns
\* explanation T and confidence 0.5.
C14_NoOpForUnmarkedText ==
    (/\ output # None
     /\ BraceFree(Text(input))
     /\ Text(input) = strip(Text(input))
     /\ ~LeadingFence(Text(input))
     /\ ~SaysExplanation(Text(input))
     /\ ~LastLineIsConfidence(Text(input))) =>
        output = Return(Text(input), DefaultConfidence)

\* The text 5, a float outside [0,1] and JSON that is no object, was normalized.
C14_Witness ==
    /\ output # None
    /\ input.kind = "raw"
    /\ input.wrapper = "none"
    /\ input.cut = 0
    /\ input.raw = <<"5">>
    /\ output.explanation = <<"5">>

\* C15: a text that is not JSON, has no '{' and '}', does not begin with a fence,
\* does not contain "explanation" in any case and whose last non-empty line does
\* not read as a float normalizes to the whole text, trimmed, with confidence 0.5;
\* "The dog is wagging its tail." normalizes to itself with confidence 0.5.
C15_PlainProse ==
    /\ (/\ output # None
        /\ BraceFree(Text(input))
        /\ ~json_loads(strip(Text(input))).ok
        /\ ~LeadingFence(Text(input))
        /\ ~SaysExplanation(Text(input))
        /\ ~LastLineIsFloat(Text(input))) =>
           output = Return(strip(Text(input)), DefaultConfidence)
    /\ (output # None /\ Text(input) = GenProse) =>
           output = Return(GenProse, DefaultConfidence)

\* "The dog is wagging its tail.", with whitespace around it, was normalized.
C15_Witness ==
    /\ output # None
    /\ input.kind = "raw"
    /\ input.raw = GenProse
    /\ input.wrapper = "pad"
    /\ input.cut = 0
    /\ output.explanation = GenProse

\* The input is a fence line (with or without a language tag), a JSON object
\* whose explanation is a non-empty string, and a closing fence.
FencedObject(d) ==
    /\ d.kind = "object"
    /\ d.wrapper \in {"fence", "bare_fence", "indented_fence"}
    /\ d.cut = 0
    /\ d.explanation.isStr
    /\ d.explanation.str # <<>>

\* C16: a fenced JSON object whose explanation is a non-empty string normalizes to
\* the explanation and confidence the object alone normalizes to, with or without
\* a language tag and with or without whitespace around the inner lines.
C16_FenceTransparent ==
    (output # None /\ FencedObject(input)) =>
        output = _parse_json_fallback(ObjectText(input.explanation, input.confidence))

\* An object between an indented fence pair was normalized to its explanation and
\* confidence.
C16_Witness ==
    /\ output # None
    /\ FencedObject(input)
    /\ input.wrapper = "indented_fence"
    /\ input.explanation.str = <<"h", "i">>
    /\ input.confidence.lit = <<"0", ".", "9">>
    /\ output = Return(<<"h", "i">>, Dec(9, 1))

(***************************************************************************)
(* SqliteRepository.increment_quota, called concurrently.  Each call has a *)
(* connection of its own.  The SELECT runs outside a transaction; the      *)
(* INSERT or UPDATE opens one and takes the database's write lock, which   *)
(* the commit at the end of the with block releases.  The schema of quotas *)
(* comes from a migration: an INSERT for a user who has a row either       *)
(* raises (user_id is a key) or adds a row no SELECT ... fetchone() of     *)
(* that user returns (it is not).                                          *)
(***************************************************************************)
\* The highest count a row holds when the calls begin.
MaxInitialCount == 2

InitialQuotas == UNION {[users -> 1..MaxInitialCount] : users \in SUBSET QuotaUsers}

InitQuota ==
    /\ settings = get_settings("set", "set")
    /\ Idle
    /\ input = None
    /\ output = None
    /\ NoInstructionRun
    /\ quotas \in InitialQuotas
    /\ calls = [q \in QuotaCalls |-> NoCall]

\* Some call holds the write lock: it wrote and has not committed.
WriteLocked == \E q \in QuotaCalls : calls[q].pc = "commit"

\* increment_quota(user_id): connect, SELECT strftime(...).
BeginIncrement(q) ==
    /\ calls[q].pc = "idle"
    /\ \E user_id \in QuotaUsers :
          calls' = [calls EXCEPT ![q] = [@ EXCEPT !.pc = "select", !.user_id = user_id]]
    /\ UNCHANGED <<settings, store, pc, upload, invocations, generation, result, response,
                   exc, http, normVars, shared, quotas, toneVars>>

\* row = conn.execute("SELECT count FROM quotas WHERE user_id = ?").fetchone()
SelectCount(q) ==
    /\ calls[q].pc = "select"
    /\ calls' = [calls EXCEPT ![q] =
                   [@ EXCEPT !.pc = "write",
                             !.row = IF calls[q].user_id \in DOMAIN quotas
                                     THEN Row(quotas[calls[q].user_id])
                                     ELSE NoRow]]
    /\ UNCHANGED <<settings, store, pc, upload, invocations, generation, result, response,
                   exc, http, normVars, shared, quotas, toneVars>>

\* WriteCount with UPDATE quotas SET count = count + 1: one atomic statement.
WriteCountAtomic(q) ==
    /\ calls[q].pc = "write"
    /\ ~WriteLocked
    /\ calls' = [calls EXCEPT ![q] =
                   IF calls[q].user_id \in DOMAIN quotas
                   THEN [@ EXCEPT !.pc = "commit", !.c = quotas[calls[q].user_id] + 1,
                                  !.visible = TRUE]
                   ELSE [@ EXCEPT !.pc = "commit", !.c = 1, !.visible = TRUE]]
    /\ UNCHANGED <<settings, store, pc, upload, invocations, generation, result, response,
                   exc, http, normVars, shared, quotas, toneVars>>

\* if row is None: INSERT ... count 1; else: c = int(row[0]) + 1; UPDATE ... c.
\* The statement waits for the write lock, and raises when the wait times out.
WriteCount(q) ==
    /\ calls[q].pc = "write"
    /\ IF WriteLocked
       THEN calls' = [calls EXCEPT ![q] = [@ EXCEPT !.pc = "raised"]]
       ELSE IF calls[q].row.found
            THEN calls' = [calls EXCEPT ![q] =
                             [@ EXCEPT !.pc = "commit", !.c = calls[q].row.count + 1,
                                       !.visible = TRUE]]
       ELSE IF calls[q].user_id \notin DOMAIN quotas
            THEN calls' = [calls EXCEPT ![q] =
                             [@ EXCEPT !.pc = "commit", !.c = 1, !.visible = TRUE]]
       ELSE \/ calls' = [calls EXCEPT ![q] = [@ EXCEPT !.pc = "raised"]]
            \/ calls' = [calls EXCEPT ![q] =
                            [@ EXCEPT !.pc = "commit", !.c = 1, !.visible = FALSE]]
    /\ UNCHANGED <<settings, store, pc, upload, invocations, generation, result, response,
                   exc, http, normVars, shared, quotas, toneVars>>

\* The with block ends: commit; return Quota(count=c).
CommitCount(q) ==
    /\ calls[q].pc = "commit"
    /\ quotas' = IF calls[q].visible
                 THEN [u \in DOMAIN quotas \cup {calls[q].user_id} |->
                          IF u = calls[q].user_id THEN calls[q].c ELSE quotas[u]]
                 ELSE quotas
    /\ calls' = [calls EXCEPT ![q] = [@ EXCEPT !.pc = "done"]]
    /\ UNCHANGED <<settings, store, pc, upload, invocations, generation, result, response,
                   exc, http, normVars, shared, toneVars>>

NextQuota ==
    \/ \E q \in QuotaCalls : BeginIncrement(q)
    \/ \E q \in QuotaCalls : SelectCount(q)
    \/ \E q \in QuotaCalls : WriteCount(q)
    \/ \E q \in QuotaCalls : CommitCount(q)

SpecQuota == InitQuota /\ [][NextQuota]_vars

\* C17: increment_quota reads the count in one step and writes in a later one, and
\* nothing makes the two atomic: the read leaves the table as it is and takes no
\* lock, and the count a call stores for a user who had a row is the count it
\* read plus one, whatever the table holds by then.
C17_ReadThenWrite ==
    [][\A q \in QuotaCalls :
          /\ (calls[q].pc = "select" /\ calls'[q].pc = "write") =>
                /\ quotas' = quotas
                /\ ~WriteLocked => ~WriteLocked'
          /\ (calls[q].pc = "commit" /\ calls'[q].pc = "done" /\ calls[q].row.found) =>
                /\ quotas'[calls[q].user_id] = calls[q].row.count + 1
                /\ calls'[q].c = calls[q].row.count + 1
      ]_vars

\* The lost update: two calls for the same user read the same count, both have
\* returned, and the stored count is that count plus one.
C17_Witness ==
    \E q1 \in QuotaCalls, q2 \in QuotaCalls :
        /\ q1 # q2
        /\ calls[q1].pc = "done" /\ calls[q2].pc = "done"
        /\ calls[q1].user_id = calls[q2].user_id
        /\ calls[q1].row.found /\ calls[q2].row.found
        /\ calls[q1].row.count = calls[q2].row.count
        /\ quotas[calls[q1].user_id] = calls[q1].row.count + 1

(***************************************************************************)
(* Simultaneous requests.  Both uploads passed the checks of the handler   *)
(* and the credential check; each request is about to invoke the model.    *)
(* The steps of the two requests interleave in every order.                *)
(***************************************************************************)
ConcurrentRequests == {"r1", "r2"}

InitConcurrent ==
    /\ settings = get_settings("set", "set")
    /\ store = [i \in {} |-> None]
    /\ pc = [r \in ConcurrentRequests |-> "invoke"]
    /\ upload \in [ConcurrentRequests ->
                     {[content_type |-> "image/png", size |-> DefaultMaxUploadBytes,
                       save |-> save] : save \in BOOLEAN}]
    /\ invocations = [r \in ConcurrentRequests |-> 0]
    /\ generation = [r \in ConcurrentRequests |-> None]
    /\ result = [r \in ConcurrentRequests |-> None]
    /\ response = [r \in ConcurrentRequests |-> None]
    /\ exc = [r \in ConcurrentRequests |-> None]
    /\ http = [r \in ConcurrentRequests |-> None]
    /\ shared = [r \in ConcurrentRequests |-> None]
    /\ input = None
    /\ output = None
    /\ NoQuotaCalls
    /\ NoInstructionRun

NextConcurrent ==
    \/ \E r \in ConcurrentRequests : InvokeModel(r)
    \/ \E r \in ConcurrentRequests : ReadBody(r)
    \/ \E r \in ConcurrentRequests : AnalyzeExcept(r)
    \/ \E r \in ConcurrentRequests : Sanitize(r)
    \/ \E r \in ConcurrentRequests : Persist(r)
    \/ \E r \in ConcurrentRequests : InterpretExcept(r)
    \/ \E r \in ConcurrentRequests : Respond(r)
    \/ \E r \in ConcurrentRequests : HandlerExcept(r)

SpecConcurrent == InitConcurrent /\ [][NextConcurrent]_vars

\* The request holds a response that names a share_id.
Shares(r) == response[r] # None /\ "share_id" \in DOMAIN response[r]

\* C18: under every interleaving of simultaneous requests, the share_id a request
\* returns is an id of the store whose row holds the explanation and the
\* confidence of that request, and no two requests return the same share_id.
C18_NoInterference ==
    /\ \A r \in ConcurrentRequests :
          Shares(r) =>
            /\ response[r].share_id \in DOMAIN store
            /\ store[response[r].share_id].explanation = response[r].explanation
            /\ store[response[r].share_id].confidence = response[r].confidence
            /\ pc[r] = "done" => http[r] = JSONResponse(200, response[r])
    /\ \A r1 \in ConcurrentRequests, r2 \in ConcurrentRequests :
          (r1 # r2 /\ Shares(r1) /\ Shares(r2)) =>
            response[r1].share_id # response[r2].share_id

\* Both requests were answered with a share_id, and their explanations differ.
C18_Witness ==
    /\ \A r \in ConcurrentRequests : pc[r] = "done" /\ Shares(r)
    /\ response["r1"].explanation # response["r2"].explanation

(***************************************************************************)
(* The second normalization of interpret, step 3.                          *)
(***************************************************************************)
\* The explanation of the first normalization, as interpret strips it.
FirstExplanation(r) == strip(result[r].explanation)

\* The first explanation still holds both braces.
Leaked(r) ==
    contains(FirstExplanation(r), <<"{">>) /\ contains(FirstExplanation(r), <<"}">>)

\* The second pass extracted: it returned something other than the text it was given.
SecondPassExtracts(parsed, text) == parsed.explanation # text

\* C19, as the spec states it: when the explanation of the first normalization
\* holds both braces and the second normalization extracts from it, the payload
\* has the explanation and the confidence of the second normalization.
C19_SecondPassPreferred ==
    \A r \in Requests :
        (Succeeded(r) /\ Leaked(r)) =>
            LET Preferred(parsed) ==
                    SecondPassExtracts(parsed, FirstExplanation(r)) =>
                        /\ http[r].content.explanation = parsed.explanation
                        /\ http[r].content.confidence = parsed.confidence
            IN  Preferred(_parse_json_fallback(FirstExplanation(r)))

\* A success payload has the explanation of the second normalization, "hi", with
\* the confidence of the first, 0.9, where the second extracted 0.3.
C19_Witness ==
    \E r \in Requests :
        /\ Succeeded(r)
        /\ generation[r] = GenLeak
        /\ Leaked(r)
        /\ http[r].content.explanation = <<"h", "i">>
        /\ http[r].content.confidence = Dec(9, 1)
        /\ _parse_json_fallback(FirstExplanation(r)).confidence = Dec(3, 1)

(***************************************************************************)
(* An object whose "confidence" gives no float.                            *)
(***************************************************************************)
\* The literals float() raises on: a non-numeric str, None, a list.
Uncoercible(confidence) ==
    confidence.lit \in {<<QUOTE, "x", QUOTE>>, <<"n", "u", "l", "l">>, <<"[", "]">>}

\* A JSON object, as it is, whose explanation is a non-empty string and whose
\* confidence is absent or gives no float.
NoFloatObject(d) ==
    /\ d.kind = "object"
    /\ d.wrapper = "none"
    /\ d.cut = 0
    /\ d.explanation.isStr
    /\ d.explanation.str # <<>>
    /\ d.confidence = Absent \/ Uncoercible(d.confidence)

\* C20, as the spec states it: for a JSON object whose "explanation" is a
\* non-empty string E and whose "confidence" is absent or cannot be coerced to a
\* float, the normalizer returns explanation E with confidence 0.5.
C20_DefaultConfidence ==
    (output # None /\ NoFloatObject(input)) =>
        output = Return(input.explanation.str, DefaultConfidence)

\* The object {"explanation": "hi", "confidence": null} was normalized to the
\* explanation hi", "confidence": null with confidence 0.5.
C20_Witness ==
    /\ output # None
    /\ NoFloatObject(input)
    /\ input.explanation.str = <<"h", "i">>
    /\ input.confidence.lit = <<"n", "u", "l", "l">>
    /\ output = Return(<<"h", "i", QUOTE, ",", " ", QUOTE, "c", "o", "n", "f", "i", "d",
                         "e", "n", "c", "e", QUOTE, ":", " ", "n", "u", "l", "l">>,
                       DefaultConfidence)

(***************************************************************************)
(* An object whose "explanation" is missing or empty.                      *)
(***************************************************************************)
\* A JSON object, as it is, with no "explanation" member or with the empty string.
EmptyExplanationObject(d) ==
    /\ d.kind = "object"
    /\ d.wrapper = "none"
    /\ d.cut = 0
    /\ d.explanation = Absent \/ (d.explanation.isStr /\ d.explanation.str = <<>>)

\* The float the object's confidence stands for: its number, what float() makes of
\* a str or bool that spells one, and 0.5 when there is none.
ObjectConfidence(confidence) ==
    IF confidence.isNum THEN confidence.val
    ELSE IF confidence.lit = <<QUOTE, "0", ".", "7", QUOTE>> THEN Dec(7, 1)
    ELSE IF confidence.lit = <<"t", "r", "u", "e">> THEN Dec(1, 0)
    ELSE DefaultConfidence

\* C21, as the spec states it: a JSON object with a missing or empty "explanation"
\* is returned by the whole-string parse, not by the embedded-JSON step and not by
\* the plain-text heuristics: the explanation is "" and the confidence is the
\* object's (0.5 if absent).
C21_EmptyExplanationReturned ==
    (output # None /\ EmptyExplanationObject(input)) =>
        output = Return(<<>>, ObjectConfidence(input.confidence))

\* The object {"confidence": null} was normalized to the explanation
\* {"confidence": null} with confidence 0.5.
C21_Witness ==
    /\ output # None
    /\ EmptyExplanationObject(input)
    /\ input.explanation = Absent
    /\ input.confidence.lit = <<"n", "u", "l", "l">>
    /\ output = Return(<<"{", QUOTE, "c", "o", "n", "f", "i", "d", "e", "n", "c", "e",
                         QUOTE, ":", " ", "n", "u", "l", "l", "}">>, DefaultConfidence)

(***************************************************************************)
(* An empty or all-whitespace text.                                        *)
(***************************************************************************)
AllWhitespace(text) == \A i \in 1..Len(text) : text[i] \in Whitespace

\* C22: an empty or all-whitespace text falls through every strategy of the
\* normalizer and comes back as the explanation "" with confidence 0.5.
C22_BlankFallsThrough ==
    (output # None /\ AllWhitespace(Text(input))) =>
        /\ embedded_json(strip_fence(strip(Text(input)))) = Pass
        /\ numeric_last_line(strip_fence(strip(Text(input)))) = Pass
        /\ output = Return(<<>>, DefaultConfidence)

\* A text of a space, a tab, a carriage return and a newline was normalized.
C22_Witness ==
    /\ output # None
    /\ Text(input) = <<" ", "\t", "\r", NL>>
    /\ output = Return(<<>>, DefaultConfidence)

(***************************************************************************)
(* The stages of a request.  A request is at a stage while the code of     *)
(* that stage is the next to run: the handler's checks, the credential     *)
(* check and the client belong to Received, build_system_instruction to    *)
(* Prompted, _resize_image_if_needed to Preprocessed, invoke_model to      *)
(* Invoked, the reading of the body, the normalizer and step 3 of          *)
(* interpret to Normalized, step 4 to Persisted, the JSONResponse to       *)
(* Responded.                                                              *)
(***************************************************************************)
StageLabels ==
    {"check_type", "check_size", "credentials", "create_client", "build_instruction",
     "resize", "invoke", "read_body", "sanitize", "persist", "respond"}

\* Where a request is while an exception travels to its handler.
FailureLabels == {"analyze_except", "interpret_except", "handler_except", "framework"}

StageAt(label) ==
    IF label = "build_instruction" THEN "Prompted"
    ELSE IF label = "resize" THEN "Preprocessed"
    ELSE IF label = "invoke" THEN "Invoked"
    ELSE IF label \in {"read_body", "sanitize"} THEN "Normalized"
    ELSE IF label = "persist" THEN "Persisted"
    ELSE IF label = "respond" THEN "Responded"
    ELSE "Received"

\* The order of the stages as the spec gives it, and as analyze_image runs them.
StatedOrder ==
    <<"Received", "Preprocessed", "Prompted", "Invoked", "Normalized", "Persisted",
      "Responded">>
CodeOrder ==
    <<"Received", "Prompted", "Preprocessed", "Invoked", "Normalized", "Persisted",
      "Responded">>

Rank(order, stage) == CHOOSE i \in 1..Len(order) : order[i] = stage

\* A step of request r keeps to the order: it stays in its stage or enters the
\* next one, it enters the first stage from idle only, it never comes back to a
\* stage from a failure, and nothing but the end of the request follows the
\* response.
StepInOrder(order, r) ==
    pc'[r] # pc[r] =>
        /\ pc'[r] \in StageLabels =>
              IF pc[r] \in StageLabels
              THEN Rank(order, StageAt(pc'[r])) - Rank(order, StageAt(pc[r])) \in {0, 1}
              ELSE pc[r] = "idle" /\ StageAt(pc'[r]) = order[1]
        /\ pc[r] \in FailureLabels => pc'[r] \in FailureLabels \cup {"done"}
        /\ pc[r] = "respond" => pc'[r] = "done"
        /\ pc[r] = "done" => pc'[r] = "idle"

====
